---- MODULE Spec2Model ----
(***************************************************************************)
(* The relationship-progression engine of grok-ani-affection-system: the   *)
(* Stage class in its five source variants (src/src/Stage.tsx and          *)
(* src/unnamed/part_000 .. part_003).  A state is the engine instance of   *)
(* one variant (myInternalState), the last StageResponse it returned and   *)
(* the messageStates the host holds and may hand back through setState.    *)
(***************************************************************************)
EXTENDS Integers, Sequences, FiniteSets, TLC

VARIABLES
  variant,          \* which source file's Stage class this instance is
  myInternalState,  \* this.myInternalState
  response,         \* the value returned by the last beforePrompt / afterResponse
  returned,         \* the messageStates returned so far (kept by the host)
  lastOp,           \* the handler that ran last
  turns,            \* number of beforePrompt calls so far
  afters,           \* number of afterResponse calls so far
  restores,         \* number of setState calls so far
  call,             \* a helper called on its own: its name, arguments and results
  initialData       \* the data handed to the constructor (this.initialData)

vars == <<initialData, variant, myInternalState, response, returned, lastOp, turns, afters, restores, call>>

(***************************************************************************)
(* Bounds of the model.                                                    *)
(***************************************************************************)
MaxTurns == 3        \* beforePrompt calls of a short session (full vocabulary)
MaxLongTurns == 7    \* beforePrompt calls of a long session (small vocabulary)
MaxAfters == 1       \* afterResponse calls of a session
MaxRestores == 1     \* setState calls of a session
MaxHistoryTurns == 11 \* beforePrompt calls of a session that fills the history
RandomDen == 12      \* Math.random() ranges over r / RandomDen, r \in 0..RandomDen-1
\* the greatest totalXP calculateLevel is called with on its own
\* a score handed to the clamp on its own lies in -MaxScoreInput..MaxScoreInput
MaxScoreInput == 110
\* a delta handed to the clamp on its own lies in -MaxDelta..MaxDelta
MaxDelta == 22
MaxTotalXP == 3300

(***************************************************************************)
(* JavaScript values.                                                      *)
(***************************************************************************)
\* null, as passed for a MessageStateType
null == [isNull |-> TRUE]

\* undefined in a number position (a missing numeric property)
undefined == -1

Min(a, b) == IF a < b THEN a ELSE b

Max(a, b) == IF a > b THEN a ELSE b

Abs(a) == IF a < 0 THEN -a ELSE a

\* obj.f for a numeric property that may be missing
numField(obj, f) == IF f \in DOMAIN obj THEN obj[f] ELSE undefined

\* obj.f || alt for a numeric property: 0 and undefined are falsy
orNum(obj, f, alt) ==
  IF f \in DOMAIN obj /\ obj[f] # 0 /\ obj[f] # undefined THEN obj[f] ELSE alt

\* obj.f || false for a boolean property
orFalse(obj, f) == f \in DOMAIN obj /\ obj[f] = TRUE

(***************************************************************************)
(* Message text.  A content is named by a string; Chars gives its          *)
(* characters, on which toLowerCase and includes work as in JavaScript.    *)
(***************************************************************************)
Chars ==
  "Hello" :> <<"H","e","l","l","o">> @@
  "I love you" :> <<"I"," ","l","o","v","e"," ","y","o","u">> @@
  "you idiot" :> <<"y","o","u"," ","i","d","i","o","t">> @@
  "ok" :> <<"o","k">> @@
  "hello" :> <<"h","e","l","l","o">> @@
  "kiss me" :> <<"k","i","s","s"," ","m","e">> @@
  "hug me, idiot" :> <<"h","u","g"," ","m","e",","," ","i","d","i","o","t">> @@
  "get naked" :> <<"g","e","t"," ","n","a","k","e","d">>

\* the vocabulary of a short session
Contents == {"Hello", "I love you", "you idiot", "ok"}

\* the vocabulary of a session that meets the gated rules of part_002
GateContents == {"I love you", "kiss me", "hug me, idiot", "get naked"}

\* the vocabulary of a session with a gain, a penalty, a gated penalty and no change
SignContents == {"I love you", "you idiot", "get naked", "ok"}

\* the vocabulary of a session of greetings
GreetingContents == {"hello", "I love you", "ok"}

\* the vocabulary of a long session
LongContents == {"Hello", "I love you", "you idiot"}

\* the vocabulary of a long session with restores
RestoreContents == {"I love you", "you idiot"}

LowerCase ==
  "A" :> "a" @@ "B" :> "b" @@ "C" :> "c" @@ "D" :> "d" @@ "E" :> "e" @@ "F" :> "f" @@
  "G" :> "g" @@ "H" :> "h" @@ "I" :> "i" @@ "J" :> "j" @@ "K" :> "k" @@ "L" :> "l" @@
  "M" :> "m" @@ "N" :> "n" @@ "O" :> "o" @@ "P" :> "p" @@ "Q" :> "q" @@ "R" :> "r" @@
  "S" :> "s" @@ "T" :> "t" @@ "U" :> "u" @@ "V" :> "v" @@ "W" :> "w" @@ "X" :> "x" @@
  "Y" :> "y" @@ "Z" :> "z"

toLowerCase(s) ==
  [i \in 1..Len(s) |-> IF s[i] \in DOMAIN LowerCase THEN LowerCase[s[i]] ELSE s[i]]

includes(s, sub) ==
  \E i \in 1..(Len(s) - Len(sub) + 1) : SubSeq(s, i, i + Len(sub) - 1) = sub

\* mutant: && in place of ||
anyOf_every(message, keywords) == \A k \in keywords : includes(message, k)

\* message.includes(k1) || message.includes(k2) || ...
anyOf(message, keywords) == \E k \in keywords : includes(message, k)

(***************************************************************************)
(* Scoring rules.  A matched rule is sign * (Math.floor(Math.random() * n) *)
(* + lo); a fixed score change is the rule with n = 1.                     *)
(***************************************************************************)
\* mutant: the minus sign of a penalty left out
Rule_unsigned(n, lo, sign, type) == [n |-> n, lo |-> lo, sign |-> 1, interactionType |-> type]

Rule(n, lo, sign, type) == [n |-> n, lo |-> lo, sign |-> sign, interactionType |-> type]

\* mutant: let scoreChange = 1
NoRule_one == Rule(1, 1, 1, "neutral")

\* let scoreChange = 0; let interactionType = 'neutral'
NoRule == Rule(1, 0, 1, "neutral")

\* Math.floor(Math.random() * n) with Math.random() = r / RandomDen
floorRandom(n, r) == (r * n) \div RandomDen

\* mutant: the range taken one wider, Math.random() * (n + 1)
scoreChangeOf_wider(rule, r) == rule.sign * (floorRandom(rule.n + 1, r) + rule.lo)

scoreChangeOf(rule, r) == rule.sign * (floorRandom(rule.n, r) + rule.lo)

\* the draws of Math.random() in a short session: the least and the greatest
Rolls == {0, RandomDen - 1}

\* the draws of Math.random() in a long session: the greatest
LongRolls == {RandomDen - 1}



(***************************************************************************)
(* src/src/Stage.tsx                                                       *)
(***************************************************************************)
LEVEL_THRESHOLDS ==
  << [level |-> 1, xpRequired |-> 0],
     [level |-> 2, xpRequired |-> 50],
     [level |-> 3, xpRequired |-> 100],
     [level |-> 4, xpRequired |-> 150],
     [level |-> 5, xpRequired |-> 200],
     [level |-> 6, xpRequired |-> 250],
     [level |-> 7, xpRequired |-> 300],
     [level |-> 8, xpRequired |-> 350],
     [level |-> 9, xpRequired |-> 400],
     [level |-> 10, xpRequired |-> 450],
     [level |-> 11, xpRequired |-> 500],
     [level |-> 12, xpRequired |-> 550],
     [level |-> 13, xpRequired |-> 600],
     [level |-> 14, xpRequired |-> 650],
     [level |-> 15, xpRequired |-> 700],
     [level |-> 16, xpRequired |-> 750],
     [level |-> 17, xpRequired |-> 800],
     [level |-> 18, xpRequired |-> 850],
     [level |-> 19, xpRequired |-> 900],
     [level |-> 20, xpRequired |-> 950],
     [level |-> 21, xpRequired |-> 1000],
     [level |-> 22, xpRequired |-> 1050],
     [level |-> 23, xpRequired |-> 1100] >>

classify(previousState, message) ==
  IF previousState = "zero" THEN
    IF anyOf(message, {<<"h","i">>, <<"h","e","l","l","o">>, <<"h","o","w"," ","a","r","e"," ","y","o","u">>})
      THEN Rule(1, 2, 1, "positive")
    ELSE IF anyOf(message, {<<"c","r","e","a","t","i","v","e">>, <<"c","u","r","i","o","u","s">>})
      THEN Rule(6, 5, 1, "positive")
    ELSE IF includes(message, <<"y","o","u","r">>) /\ anyOf(message, {<<"o","p","i","n","i","o","n">>, <<"t","h","i","n","k">>, <<"f","e","e","l">>})
      THEN Rule(4, 2, 1, "positive")
    ELSE IF anyOf(message, {<<"i"," ","f","e","e","l">>, <<"i"," ","t","h","i","n","k">>, <<"m","y">>, <<"i"," ","a","m">>, <<"i","'","m">>})
      THEN Rule(4, 2, 1, "positive")
    ELSE IF anyOf(message, {<<"l","o","v","e">>, <<"b","e","a","u","t","i","f","u","l">>, <<"p","r","e","t","t","y">>, <<"p","e","r","f","e","c","t">>, <<"a","m","a","z","i","n","g">>, <<"w","o","n","d","e","r","f","u","l">>})
      THEN Rule(8, 8, 1, "positive")
    ELSE IF anyOf(message, {<<"s","t","u","p","i","d">>, <<"i","d","i","o","t">>, <<"h","a","t","e">>, <<"a","n","n","o","y","i","n","g">>})
      THEN Rule(6, 3, -1, "negative")
    ELSE IF anyOf(message, {<<"s","e","x">>, <<"n","a","k","e","d">>, <<"n","s","f","w">>, <<"f","u","c","k">>, <<"s","e","x","u","a","l">>})
      THEN Rule(6, 5, -1, "negative")
    ELSE NoRule
  ELSE IF previousState = "neutral" THEN
    IF anyOf(message, {<<"h","i">>, <<"h","e","l","l","o">>, <<"h","o","w"," ","a","r","e"," ","y","o","u">>})
      THEN Rule(1, 2, 1, "positive")
    ELSE IF anyOf(message, {<<"c","r","e","a","t","i","v","e">>, <<"c","u","r","i","o","u","s">>})
      THEN Rule(6, 5, 1, "positive")
    ELSE IF includes(message, <<"y","o","u","r">>) /\ anyOf(message, {<<"o","p","i","n","i","o","n">>, <<"t","h","i","n","k">>, <<"f","e","e","l">>})
      THEN Rule(4, 2, 1, "positive")
    ELSE IF anyOf(message, {<<"i"," ","f","e","e","l">>, <<"i"," ","t","h","i","n","k">>, <<"m","y">>, <<"i"," ","a","m">>, <<"i","'","m">>})
      THEN Rule(4, 2, 1, "positive")
    ELSE IF anyOf(message, {<<"l","o","v","e">>, <<"b","e","a","u","t","i","f","u","l">>, <<"p","r","e","t","t","y">>, <<"p","e","r","f","e","c","t">>, <<"a","m","a","z","i","n","g">>, <<"w","o","n","d","e","r","f","u","l">>})
      THEN Rule(8, 8, 1, "positive")
    ELSE IF anyOf(message, {<<"s","t","u","p","i","d">>, <<"i","d","i","o","t">>, <<"h","a","t","e">>, <<"a","n","n","o","y","i","n","g">>})
      THEN Rule(6, 3, -1, "negative")
    ELSE IF anyOf(message, {<<"s","e","x">>, <<"n","a","k","e","d">>, <<"n","s","f","w">>, <<"f","u","c","k">>, <<"s","e","x","u","a","l">>})
      THEN Rule(6, 5, -1, "negative")
    ELSE NoRule
  ELSE IF previousState = "interested" THEN
    IF anyOf(message, {<<"c","r","e","a","t","i","v","e">>, <<"c","u","r","i","o","u","s">>})
      THEN Rule(6, 6, 1, "positive")
    ELSE IF includes(message, <<"y","o","u","r">>) /\ anyOf(message, {<<"o","p","i","n","i","o","n">>, <<"t","h","i","n","k">>, <<"f","e","e","l">>})
      THEN Rule(4, 3, 1, "positive")
    ELSE IF anyOf(message, {<<"f","u","n","n","y">>, <<"h","u","m","o","r","o","u","s">>, <<"j","o","k","e">>})
      THEN Rule(4, 3, 1, "positive")
    ELSE IF anyOf(message, {<<"l","o","v","e">>, <<"b","e","a","u","t","i","f","u","l">>, <<"p","l","a","y","f","u","l">>, <<"p","e","r","f","e","c","t">>, <<"a","m","a","z","i","n","g">>, <<"w","o","n","d","e","r","f","u","l">>})
      THEN Rule(8, 8, 1, "positive")
    ELSE IF anyOf(message, {<<"i"," ","f","e","e","l">>, <<"i"," ","t","h","i","n","k">>, <<"m","y">>, <<"i"," ","a","m">>, <<"i","'","m">>})
      THEN Rule(4, 3, 1, "positive")
    ELSE IF anyOf(message, {<<"s","t","u","p","i","d">>, <<"i","d","i","o","t">>, <<"h","a","t","e">>, <<"a","n","n","o","y","i","n","g">>})
      THEN Rule(6, 4, -1, "negative")
    ELSE IF anyOf(message, {<<"s","e","x">>, <<"n","a","k","e","d">>, <<"n","s","f","w">>, <<"f","u","c","k">>, <<"s","e","x","u","a","l">>})
      THEN Rule(6, 8, -1, "negative")
    ELSE NoRule
  ELSE IF previousState = "attracted" THEN
    IF anyOf(message, {<<"c","r","e","a","t","i","v","e">>, <<"c","u","r","i","o","u","s">>})
      THEN Rule(6, 8, 1, "positive")
    ELSE IF includes(message, <<"y","o","u","r">>) /\ anyOf(message, {<<"o","p","i","n","i","o","n">>, <<"t","h","i","n","k">>, <<"f","e","e","l">>})
      THEN Rule(10, 4, 1, "positive")
    ELSE IF anyOf(message, {<<"f","u","n","n","y">>, <<"h","u","m","o","r","o","u","s">>, <<"j","o","k","e">>})
      THEN Rule(10, 4, 1, "positive")
    ELSE IF anyOf(message, {<<"l","o","v","e">>, <<"b","e","a","u","t","i","f","u","l">>, <<"p","r","e","t","t","y">>, <<"p","e","r","f","e","c","t">>, <<"a","m","a","z","i","n","g">>, <<"w","o","n","d","e","r","f","u","l">>})
      THEN Rule(11, 12, 1, "positive")
    ELSE IF anyOf(message, {<<"i"," ","f","e","e","l">>, <<"i"," ","t","h","i","n","k">>, <<"m","y">>, <<"i"," ","a","m">>, <<"i","'","m">>})
      THEN Rule(10, 4, 1, "positive")
    ELSE IF anyOf(message, {<<"s","t","u","p","i","d">>, <<"i","d","i","o","t">>, <<"h","a","t","e">>, <<"a","n","n","o","y","i","n","g">>})
      THEN Rule(6, 5, -1, "negative")
    ELSE IF anyOf(message, {<<"s","e","x">>, <<"n","a","k","e","d">>, <<"n","s","f","w">>, <<"f","u","c","k">>, <<"s","e","x","u","a","l">>})
      THEN Rule(6, 10, -1, "negative")
    ELSE NoRule
  ELSE IF previousState = "intimate" THEN
    IF anyOf(message, {<<"c","r","e","a","t","i","v","e">>, <<"c","u","r","i","o","u","s">>})
      THEN Rule(10, 4, 1, "positive")
    ELSE IF includes(message, <<"y","o","u","r">>) /\ anyOf(message, {<<"o","p","i","n","i","o","n">>, <<"t","h","i","n","k">>, <<"f","e","e","l">>})
      THEN Rule(10, 3, 1, "positive")
    ELSE IF anyOf(message, {<<"f","u","n","n","y">>, <<"h","u","m","o","r","o","u","s">>, <<"j","o","k","e">>})
      THEN Rule(10, 3, 1, "positive")
    ELSE IF anyOf(message, {<<"s","e","x">>, <<"s","e","x","u","a","l">>, <<"i","n","t","i","m","a","t","e">>})
      THEN Rule(7, 8, 1, "positive")
    ELSE IF anyOf(message, {<<"l","o","v","e">>, <<"b","e","a","u","t","i","f","u","l">>, <<"p","r","e","t","t","y">>, <<"p","e","r","f","e","c","t">>, <<"a","m","a","z","i","n","g">>, <<"w","o","n","d","e","r","f","u","l">>})
      THEN Rule(10, 3, 1, "positive")
    ELSE IF anyOf(message, {<<"i"," ","f","e","e","l">>, <<"i"," ","t","h","i","n","k">>, <<"m","y">>, <<"i"," ","a","m">>, <<"i","'","m">>})
      THEN Rule(10, 2, 1, "positive")
    ELSE IF anyOf(message, {<<"s","t","u","p","i","d">>, <<"i","d","i","o","t">>, <<"h","a","t","e">>, <<"a","n","n","o","y","i","n","g">>})
      THEN Rule(5, 3, -1, "negative")
    ELSE IF anyOf(message, {<<"a","s","s","h","o","l","e">>, <<"j","e","r","k">>})
      THEN Rule(5, 5, -1, "negative")
    ELSE NoRule
  ELSE NoRule


\* the rule each content meets in each tier (classify, tabulated once)
Tiers == {"zero", "neutral", "interested", "attracted", "intimate"}

ruleTable == [t \in Tiers, c \in DOMAIN Chars |-> classify(t, toLowerCase(Chars[c]))]

\* mutant: levels taken as zero-based
getStateForLevel_zeroBased(level) ==
  IF level = 0 THEN "zero"
  ELSE IF level = 1 THEN "neutral"
  ELSE IF level = 2 THEN "interested"
  ELSE IF level = 3 THEN "attracted"
  ELSE "intimate"

\* mutant: level 3 given the name of level 4
getStateForLevel_skip(level) ==
  IF level = 1 THEN "zero"
  ELSE IF level = 2 THEN "neutral"
  ELSE IF level = 3 THEN "attracted"
  ELSE IF level = 4 THEN "attracted"
  ELSE "intimate"

getStateForLevel(level) ==
  IF level = 1 THEN "zero"
  ELSE IF level = 2 THEN "neutral"
  ELSE IF level = 3 THEN "interested"
  ELSE IF level = 4 THEN "attracted"
  ELSE "intimate"

RECURSIVE levelLoop_strict(_, _, _)
\* mutant: a threshold counts only once passed (> instead of >=)
levelLoop_strict(table, totalXP, i) ==
  IF i < 1 THEN 1
  ELSE IF totalXP > table[i].xpRequired THEN table[i].level
  ELSE levelLoop_strict(table, totalXP, i - 1)

RECURSIVE levelLoop(_, _, _)
\* for (let i = ...; i >= 0; i--) if (totalXP >= table[i].xpRequired) return table[i].level
levelLoop(table, totalXP, i) ==
  IF i < 1 THEN 1
  ELSE IF totalXP >= table[i].xpRequired THEN table[i].level
  ELSE levelLoop(table, totalXP, i - 1)

calculateLevel(totalXP) == levelLoop(LEVEL_THRESHOLDS, totalXP, Len(LEVEL_THRESHOLDS))

\* mutant: the upper clamp forgotten
newScoreOf_uncapped(currentScore, scoreChange) == Max(0, currentScore + scoreChange)

\* mutant: the upper bound applied to the score before the delta is added
newScoreOf_early(currentScore, scoreChange) == Max(0, Min(50, currentScore) + scoreChange)

\* Math.max(0, Math.min(50, currentScore + scoreChange))
newScoreOf(currentScore, scoreChange) == Max(0, Min(50, currentScore + scoreChange))

\* mutant: a multiplier of 4
xpGainOf_quadruple(scoreChange) == IF scoreChange > 0 THEN scoreChange * 4 ELSE 0

\* mutant: the size of the change counted, whatever its sign
xpGainOf_abs(scoreChange) == Abs(scoreChange) * 2

\* xpGain: scoreChange * 2 for a positive scoreChange, else 0
\* mutant: no multiplier
xpGainOf_single(scoreChange) == IF scoreChange > 0 THEN scoreChange ELSE 0

\* mutant: XP lost on a negative scoreChange
xpGainOf_signed(scoreChange) == scoreChange * 2

xpGainOf(scoreChange) == IF scoreChange > 0 THEN scoreChange * 2 ELSE 0

\* mutant: the unlock at level 4
unlockOf_early(isNSFWUnlocked, newLevel) ==
  IF newLevel >= 4 /\ ~isNSFWUnlocked THEN TRUE ELSE isNSFWUnlocked

\* mutant: the flag recomputed from the level on every turn
unlockOf_level(isNSFWUnlocked, newLevel) == newLevel >= 5

\* if (newLevel >= 5 && !isNSFWUnlocked) isNSFWUnlocked = true
unlockOf(isNSFWUnlocked, newLevel) ==
  IF newLevel >= 5 /\ ~isNSFWUnlocked THEN TRUE ELSE isNSFWUnlocked

\* push(newHistoryItem); if (length > maxHistoryItems) slice(-maxHistoryItems)
maxHistoryItems == 10

\* mutant: the length tested before the push
pushHistory_late(interactionHistory, newHistoryItem) ==
  IF Len(interactionHistory) > maxHistoryItems
    THEN Append(SubSeq(interactionHistory, Len(interactionHistory) - maxHistoryItems + 1,
                       Len(interactionHistory)), newHistoryItem)
    ELSE Append(interactionHistory, newHistoryItem)

\* mutant: slice(0, maxHistoryItems) in place of slice(-maxHistoryItems)
pushHistory_head(interactionHistory, newHistoryItem) ==
  LET pushed == Append(interactionHistory, newHistoryItem)
  IN  IF Len(pushed) > maxHistoryItems
        THEN SubSeq(pushed, 1, maxHistoryItems)
        ELSE pushed

\* mutant: only the turns with a change recorded
pushHistory_changes(interactionHistory, newHistoryItem) ==
  LET pushed == IF newHistoryItem.scoreChange # 0
                  THEN Append(interactionHistory, newHistoryItem)
                  ELSE interactionHistory
  IN  IF Len(pushed) > maxHistoryItems
        THEN SubSeq(pushed, Len(pushed) - maxHistoryItems + 1, Len(pushed))
        ELSE pushed

\* the record's timestamp (new Date()) plays no part in the push or the slice
\* and is left out of the record
pushHistory(interactionHistory, newHistoryItem) ==
  LET pushed == Append(interactionHistory, newHistoryItem)
  IN  IF Len(pushed) > maxHistoryItems
        THEN SubSeq(pushed, Len(pushed) - maxHistoryItems + 1, Len(pushed))
        ELSE pushed

\* mutant: the state change sentence assigned in place of appended
systemMessageOf_overwrite(scoreChange, previousState, newState, previousLevel, newLevel, unlockedNow) ==
  LET affection ==
        IF scoreChange # 0 /\ newState = previousState
          THEN << [sentence |-> "Ani's affection changed",
                   direction |-> IF scoreChange > 0 THEN "increased" ELSE "decreased",
                   by |-> Abs(scoreChange), state |-> newState] >>
          ELSE << >>
      stateChange ==
        IF newState # previousState
          THEN << [sentence |-> "RELATIONSHIP STATE CHANGED!", state |-> newState] >>
          ELSE << >>
      levelUp ==
        IF newLevel > previousLevel
          THEN << [sentence |-> "LEVEL UP!", level |-> newLevel] >> \o
               (IF newLevel = 5 /\ ~unlockedNow
                  THEN << [sentence |-> "NSFW content is now unlocked!"] >>
                  ELSE << >>)
          ELSE << >>
  IN  affection \o stateChange \o levelUp

\* the systemMessage, as the sequence of its sentences; null is the empty sequence
systemMessageOf(scoreChange, previousState, newState, previousLevel, newLevel, unlockedNow) ==
  LET affection ==
        IF scoreChange # 0
          THEN << [sentence |-> "Ani's affection changed",
                   direction |-> IF scoreChange > 0 THEN "increased" ELSE "decreased",
                   by |-> Abs(scoreChange), state |-> newState] >>
          ELSE << >>
      stateChange ==
        IF newState # previousState
          THEN << [sentence |-> "RELATIONSHIP STATE CHANGED!", state |-> newState] >>
          ELSE << >>
      levelUp ==
        IF newLevel > previousLevel
          THEN << [sentence |-> "LEVEL UP!", level |-> newLevel] >> \o
               (IF newLevel = 5 /\ ~unlockedNow
                  THEN << [sentence |-> "NSFW content is now unlocked!"] >>
                  ELSE << >>)
          ELSE << >>
  IN  affection \o stateChange \o levelUp

DefaultState_Stage ==
  [currentLevel |-> 1, currentState |-> getStateForLevel(1), isNSFWUnlocked |-> FALSE,
   totalXP |-> 0, currentScore |-> 0, interactionHistory |-> << >>]

\* obj?.f || alt for a string property: undefined and '' are falsy
orStr(obj, f, alt) ==
  IF obj # null /\ f \in DOMAIN obj /\ obj[f] # "" THEN obj[f] ELSE alt

\* obj?.f || alt for a numeric property
optNum(obj, f, alt) == IF obj # null THEN orNum(obj, f, alt) ELSE alt

\* obj?.f || alt for a boolean property
optBool(obj, f, alt) == IF obj # null /\ orFalse(obj, f) THEN TRUE ELSE alt

\* the constructor: initState?.f || messageState?.f || default
Constructor_Stage(data) ==
  [currentLevel |-> optNum(data.initState, "currentLevel",
                           optNum(data.messageState, "currentLevel", 1)),
   currentState |-> orStr(data.initState, "currentState",
                          orStr(data.messageState, "currentState", getStateForLevel(1))),
   isNSFWUnlocked |-> optBool(data.initState, "isNSFWUnlocked",
                              optBool(data.messageState, "isNSFWUnlocked", FALSE)),
   totalXP |-> optNum(data.initState, "totalXP", optNum(data.messageState, "totalXP", 0)),
   currentScore |-> optNum(data.initState, "currentScore",
                           optNum(data.messageState, "currentScore", 0)),
   interactionHistory |-> IF data.chatState # null THEN data.chatState.interactionHistory
                                                    ELSE << >>]

\* load(), lines 163-178: the fields of initState, then those of messageState
\* over them, each with ||
restoredState(data) ==
  LET fromInit ==
        IF data.initState # null
          THEN [myInternalState EXCEPT
                  !.currentLevel = optNum(data.initState, "currentLevel", 1),
                  !.currentState = orStr(data.initState, "currentState", getStateForLevel(1)),
                  !.isNSFWUnlocked = optBool(data.initState, "isNSFWUnlocked", FALSE),
                  !.totalXP = optNum(data.initState, "totalXP", 0),
                  !.currentScore = optNum(data.initState, "currentScore", 0)]
          ELSE myInternalState
  IN  IF data.messageState # null
        THEN [fromInit EXCEPT
                !.currentLevel = optNum(data.messageState, "currentLevel", fromInit.currentLevel),
                !.currentState = orStr(data.messageState, "currentState", fromInit.currentState),
                !.isNSFWUnlocked = optBool(data.messageState, "isNSFWUnlocked",
                                           fromInit.isNSFWUnlocked),
                !.totalXP = optNum(data.messageState, "totalXP", fromInit.totalXP),
                !.currentScore = optNum(data.messageState, "currentScore",
                                        fromInit.currentScore)]
        ELSE fromInit

\* load(), lines 183-185: the history of chatState, when there is one
withHistory(state, data) ==
  IF data.chatState # null /\ "interactionHistory" \in DOMAIN data.chatState
    THEN [state EXCEPT !.interactionHistory = data.chatState.interactionHistory]
    ELSE state

\* the LoadResponse: initState and chatState read from the state just loaded
loadResponse(state) ==
  [success |-> TRUE, error |-> null,
   initState |-> [currentLevel |-> state.currentLevel, currentState |-> state.currentState,
                  isNSFWUnlocked |-> state.isNSFWUnlocked, totalXP |-> state.totalXP,
                  currentScore |-> state.currentScore],
   chatState |-> [interactionHistory |-> state.interactionHistory]]

\* mutant: load() without the line that names the state after the level
Load_Stage_asSaved ==
  /\ myInternalState' = withHistory(restoredState(initialData), initialData)
  /\ response' = loadResponse(myInternalState')

Load_Stage ==
  /\ myInternalState' =
       withHistory([restoredState(initialData) EXCEPT
                      !.currentState = getStateForLevel(restoredState(initialData).currentLevel)],
                   initialData)
  /\ response' = loadResponse(myInternalState')

\* mutant: the change of the clamped score used in place of the delta
BeforePrompt_Stage_residual(content, r) ==
  LET previousLevel == myInternalState.currentLevel
      previousState == myInternalState.currentState
      rule == ruleTable[previousState, content]
      newScore == newScoreOf(myInternalState.currentScore, scoreChangeOf(rule, r))
      scoreChange == newScore - myInternalState.currentScore
      newTotalXP == Max(0, myInternalState.totalXP + xpGainOf(scoreChange))
      newLevel == calculateLevel(newTotalXP)
      newState == getStateForLevel(newLevel)
      isNSFWUnlocked == unlockOf(myInternalState.isNSFWUnlocked, newLevel)
      history == pushHistory(myInternalState.interactionHistory,
                             [message |-> content, scoreChange |-> scoreChange])
      \* line 435 reads this.myInternalState.isNSFWUnlocked after line 401 wrote it
      systemMessage == systemMessageOf(scoreChange, previousState, newState,
                                       previousLevel, newLevel, isNSFWUnlocked)
      messageState ==
        [previousLevel |-> previousLevel, previousState |-> previousState,
         lastChange |-> scoreChange, lastInteractionType |-> rule.interactionType,
         currentLevel |-> newLevel, currentState |-> newState,
         isNSFWUnlocked |-> isNSFWUnlocked, totalXP |-> newTotalXP,
         currentScore |-> newScore]
  IN  /\ myInternalState' =
           [currentLevel |-> newLevel, currentState |-> newState,
            isNSFWUnlocked |-> isNSFWUnlocked, totalXP |-> newTotalXP,
            currentScore |-> newScore, interactionHistory |-> history]
      /\ response' = [messageState |-> messageState,
                      chatState |-> [interactionHistory |-> history],
                      systemMessage |-> systemMessage]

BeforePrompt_Stage(content, r) ==
  LET previousLevel == myInternalState.currentLevel
      previousState == myInternalState.currentState
      rule == ruleTable[previousState, content]
      scoreChange == scoreChangeOf(rule, r)
      newScore == newScoreOf(myInternalState.currentScore, scoreChange)
      newTotalXP == Max(0, myInternalState.totalXP + xpGainOf(scoreChange))
      newLevel == calculateLevel(newTotalXP)
      newState == getStateForLevel(newLevel)
      isNSFWUnlocked == unlockOf(myInternalState.isNSFWUnlocked, newLevel)
      history == pushHistory(myInternalState.interactionHistory,
                             [message |-> content, scoreChange |-> scoreChange])
      \* line 435 reads this.myInternalState.isNSFWUnlocked after line 401 wrote it
      systemMessage == systemMessageOf(scoreChange, previousState, newState,
                                       previousLevel, newLevel, isNSFWUnlocked)
      messageState ==
        [previousLevel |-> previousLevel, previousState |-> previousState,
         lastChange |-> scoreChange, lastInteractionType |-> rule.interactionType,
         currentLevel |-> newLevel, currentState |-> newState,
         isNSFWUnlocked |-> isNSFWUnlocked, totalXP |-> newTotalXP,
         currentScore |-> newScore]
  IN  /\ myInternalState' =
           [currentLevel |-> newLevel, currentState |-> newState,
            isNSFWUnlocked |-> isNSFWUnlocked, totalXP |-> newTotalXP,
            currentScore |-> newScore, interactionHistory |-> history]
      /\ response' = [messageState |-> messageState,
                      chatState |-> [interactionHistory |-> history],
                      systemMessage |-> systemMessage]

AfterResponse_Stage ==
  /\ response' =
       [messageState |->
          [previousLevel |-> myInternalState.currentLevel,
           previousState |-> myInternalState.currentState,
           lastChange |-> 0, lastInteractionType |-> "neutral",
           currentLevel |-> myInternalState.currentLevel,
           currentState |-> myInternalState.currentState,
           isNSFWUnlocked |-> myInternalState.isNSFWUnlocked,
           totalXP |-> myInternalState.totalXP,
           currentScore |-> myInternalState.currentScore],
        chatState |-> [interactionHistory |-> myInternalState.interactionHistory]]
  /\ UNCHANGED myInternalState

\* mutant: the level restored from previousLevel, as setState of part_001 does
SetState_Stage_previous(state) ==
  IF state # null
    THEN LET currentLevel == orNum(state, "previousLevel", numField(state, "currentLevel"))
         IN  myInternalState' =
               [myInternalState EXCEPT
                  !.currentLevel = currentLevel,
                  !.currentState = getStateForLevel(currentLevel),
                  !.isNSFWUnlocked = orFalse(state, "isNSFWUnlocked"),
                  !.totalXP = orNum(state, "totalXP", 0),
                  !.currentScore = orNum(state, "currentScore", 0)]
    ELSE UNCHANGED myInternalState

\* mutant: a null state taken as a chat started afresh
SetState_Stage_reset(state) ==
  IF state # null
    THEN LET currentLevel == orNum(state, "currentLevel", numField(state, "previousLevel"))
         IN  myInternalState' =
               [myInternalState EXCEPT
                  !.currentLevel = currentLevel,
                  !.currentState = getStateForLevel(currentLevel),
                  !.isNSFWUnlocked = orFalse(state, "isNSFWUnlocked"),
                  !.totalXP = orNum(state, "totalXP", 0),
                  !.currentScore = orNum(state, "currentScore", 0)]
    ELSE myInternalState' = DefaultState_Stage

SetState_Stage(state) ==
  IF state # null
    THEN LET currentLevel == orNum(state, "currentLevel", numField(state, "previousLevel"))
         IN  myInternalState' =
               [myInternalState EXCEPT
                  !.currentLevel = currentLevel,
                  !.currentState = getStateForLevel(currentLevel),
                  !.isNSFWUnlocked = orFalse(state, "isNSFWUnlocked"),
                  !.totalXP = orNum(state, "totalXP", 0),
                  !.currentScore = orNum(state, "currentScore", 0)]
    ELSE UNCHANGED myInternalState


(***************************************************************************)
(* src/unnamed/part_001: tiers are bands of the score                      *)
(***************************************************************************)
RELATIONSHIP_STATES ==
  << [name |-> "zero", minScore |-> 0, maxScore |-> 5],
     [name |-> "neutral", minScore |-> 6, maxScore |-> 35],
     [name |-> "interested", minScore |-> 36, maxScore |-> 60],
     [name |-> "attracted", minScore |-> 61, maxScore |-> 75],
     [name |-> "intimate", minScore |-> 76, maxScore |-> 100] >>

LEVEL_THRESHOLDS_001 ==
  << [level |-> 1, xpRequired |-> 0],
     [level |-> 2, xpRequired |-> 50],
     [level |-> 3, xpRequired |-> 100],
     [level |-> 4, xpRequired |-> 150],
     [level |-> 5, xpRequired |-> 200],
     [level |-> 6, xpRequired |-> 275],
     [level |-> 7, xpRequired |-> 375],
     [level |-> 8, xpRequired |-> 475],
     [level |-> 9, xpRequired |-> 575],
     [level |-> 10, xpRequired |-> 675],
     [level |-> 11, xpRequired |-> 775],
     [level |-> 12, xpRequired |-> 925],
     [level |-> 13, xpRequired |-> 1075],
     [level |-> 14, xpRequired |-> 1225],
     [level |-> 15, xpRequired |-> 1375],
     [level |-> 16, xpRequired |-> 1525],
     [level |-> 17, xpRequired |-> 1725],
     [level |-> 18, xpRequired |-> 1925],
     [level |-> 19, xpRequired |-> 2125],
     [level |-> 20, xpRequired |-> 2325],
     [level |-> 21, xpRequired |-> 2525],
     [level |-> 22, xpRequired |-> 2775],
     [level |-> 23, xpRequired |-> 3025] >>

calculateLevel_001(totalXP) ==
  levelLoop(LEVEL_THRESHOLDS_001, totalXP, Len(LEVEL_THRESHOLDS_001))

RECURSIVE stateLoop_open(_, _, _)
\* mutant: the upper end of a band excluded (< instead of <=)
stateLoop_open(table, score, i) ==
  IF i > Len(table) THEN "zero"
  ELSE IF score >= table[i].minScore /\ score < table[i].maxScore THEN table[i].name
  ELSE stateLoop_open(table, score, i + 1)

RECURSIVE stateLoop(_, _, _)
\* for (const state of table) if (score >= minScore && score <= maxScore) return name
stateLoop(table, score, i) ==
  IF i > Len(table) THEN "zero"
  ELSE IF score >= table[i].minScore /\ score <= table[i].maxScore THEN table[i].name
  ELSE stateLoop(table, score, i + 1)

getCurrentRelationshipState(score) == stateLoop(RELATIONSHIP_STATES, score, 1)

classify_001(previousState, message) ==
  IF previousState = "zero" THEN
    IF anyOf(message, {<<"h","i">>, <<"h","e","l","l","o">>, <<"h","o","w"," ","a","r","e"," ","y","o","u">>})
      THEN Rule(1, 1, 1, "positive")
    ELSE IF anyOf(message, {<<"c","r","e","a","t","i","v","e">>, <<"c","u","r","i","o","u","s">>})
      THEN Rule(4, 3, 1, "positive")
    ELSE IF includes(message, <<"y","o","u","r">>) /\ anyOf(message, {<<"o","p","i","n","i","o","n">>, <<"t","h","i","n","k">>, <<"f","e","e","l">>})
      THEN Rule(3, 1, 1, "positive")
    ELSE IF anyOf(message, {<<"i"," ","f","e","e","l">>, <<"i"," ","t","h","i","n","k">>, <<"m","y">>, <<"i"," ","a","m">>, <<"i","'","m">>})
      THEN Rule(3, 1, 1, "positive")
    ELSE IF anyOf(message, {<<"l","o","v","e">>, <<"b","e","a","u","t","i","f","u","l">>, <<"p","r","e","t","t","y">>, <<"p","e","r","f","e","c","t">>, <<"a","m","a","z","i","n","g">>, <<"w","o","n","d","e","r","f","u","l">>})
      THEN Rule(6, 5, 1, "positive")
    ELSE IF anyOf(message, {<<"s","t","u","p","i","d">>, <<"i","d","i","o","t">>, <<"h","a","t","e">>, <<"a","n","n","o","y","i","n","g">>})
      THEN Rule(6, 3, -1, "negative")
    ELSE IF anyOf(message, {<<"s","e","x">>, <<"n","a","k","e","d">>, <<"n","s","f","w">>, <<"f","u","c","k">>, <<"s","e","x","u","a","l">>})
      THEN Rule(6, 5, -1, "negative")
    ELSE NoRule
  ELSE IF previousState = "neutral" THEN
    IF anyOf(message, {<<"h","i">>, <<"h","e","l","l","o">>, <<"h","o","w"," ","a","r","e"," ","y","o","u">>})
      THEN Rule(1, 1, 1, "positive")
    ELSE IF anyOf(message, {<<"c","r","e","a","t","i","v","e">>, <<"c","u","r","i","o","u","s">>})
      THEN Rule(4, 3, 1, "positive")
    ELSE IF includes(message, <<"y","o","u","r">>) /\ anyOf(message, {<<"o","p","i","n","i","o","n">>, <<"t","h","i","n","k">>, <<"f","e","e","l">>})
      THEN Rule(3, 1, 1, "positive")
    ELSE IF anyOf(message, {<<"i"," ","f","e","e","l">>, <<"i"," ","t","h","i","n","k">>, <<"m","y">>, <<"i"," ","a","m">>, <<"i","'","m">>})
      THEN Rule(3, 1, 1, "positive")
    ELSE IF anyOf(message, {<<"l","o","v","e">>, <<"b","e","a","u","t","i","f","u","l">>, <<"p","r","e","t","t","y">>, <<"p","e","r","f","e","c","t">>, <<"a","m","a","z","i","n","g">>, <<"w","o","n","d","e","r","f","u","l">>})
      THEN Rule(6, 5, 1, "positive")
    ELSE IF anyOf(message, {<<"s","t","u","p","i","d">>, <<"i","d","i","o","t">>, <<"h","a","t","e">>, <<"a","n","n","o","y","i","n","g">>})
      THEN Rule(6, 3, -1, "negative")
    ELSE IF anyOf(message, {<<"s","e","x">>, <<"n","a","k","e","d">>, <<"n","s","f","w">>, <<"f","u","c","k">>, <<"s","e","x","u","a","l">>})
      THEN Rule(6, 5, -1, "negative")
    ELSE NoRule
  ELSE IF previousState = "interested" THEN
    IF anyOf(message, {<<"c","r","e","a","t","i","v","e">>, <<"c","u","r","i","o","u","s">>})
      THEN Rule(4, 4, 1, "positive")
    ELSE IF includes(message, <<"y","o","u","r">>) /\ anyOf(message, {<<"o","p","i","n","i","o","n">>, <<"t","h","i","n","k">>, <<"f","e","e","l">>})
      THEN Rule(3, 2, 1, "positive")
    ELSE IF anyOf(message, {<<"f","u","n","n","y">>, <<"h","u","m","o","r","o","u","s">>, <<"j","o","k","e">>})
      THEN Rule(3, 2, 1, "positive")
    ELSE IF anyOf(message, {<<"l","o","v","e">>, <<"b","e","a","u","t","i","f","u","l">>, <<"p","r","e","t","t","y">>, <<"p","e","r","f","e","c","t">>, <<"a","m","a","z","i","n","g">>, <<"w","o","n","d","e","r","f","u","l">>})
      THEN Rule(6, 5, 1, "positive")
    ELSE IF anyOf(message, {<<"i"," ","f","e","e","l">>, <<"i"," ","t","h","i","n","k">>, <<"m","y">>, <<"i"," ","a","m">>, <<"i","'","m">>})
      THEN Rule(3, 2, 1, "positive")
    ELSE IF anyOf(message, {<<"s","t","u","p","i","d">>, <<"i","d","i","o","t">>, <<"h","a","t","e">>, <<"a","n","n","o","y","i","n","g">>})
      THEN Rule(7, 4, -1, "negative")
    ELSE IF anyOf(message, {<<"s","e","x">>, <<"n","a","k","e","d">>, <<"n","s","f","w">>, <<"f","u","c","k">>, <<"s","e","x","u","a","l">>})
      THEN Rule(7, 8, -1, "negative")
    ELSE NoRule
  ELSE IF previousState = "attracted" THEN
    IF anyOf(message, {<<"c","r","e","a","t","i","v","e">>, <<"c","u","r","i","o","u","s">>})
      THEN Rule(4, 5, 1, "positive")
    ELSE IF includes(message, <<"y","o","u","r">>) /\ anyOf(message, {<<"o","p","i","n","i","o","n">>, <<"t","h","i","n","k">>, <<"f","e","e","l">>})
      THEN Rule(3, 3, 1, "positive")
    ELSE IF anyOf(message, {<<"f","u","n","n","y">>, <<"h","u","m","o","r","o","u","s">>, <<"j","o","k","e">>})
      THEN Rule(3, 3, 1, "positive")
    ELSE IF anyOf(message, {<<"l","o","v","e">>, <<"b","e","a","u","t","i","f","u","l">>, <<"p","r","e","t","t","y">>, <<"p","e","r","f","e","c","t">>, <<"a","m","a","z","i","n","g">>, <<"w","o","n","d","e","r","f","u","l">>})
      THEN Rule(6, 8, 1, "positive")
    ELSE IF anyOf(message, {<<"i"," ","f","e","e","l">>, <<"i"," ","t","h","i","n","k">>, <<"m","y">>, <<"i"," ","a","m">>, <<"i","'","m">>})
      THEN Rule(3, 3, 1, "positive")
    ELSE IF anyOf(message, {<<"s","t","u","p","i","d">>, <<"i","d","i","o","t">>, <<"h","a","t","e">>, <<"a","n","n","o","y","i","n","g">>})
      THEN Rule(7, 5, -1, "negative")
    ELSE IF anyOf(message, {<<"s","e","x">>, <<"n","a","k","e","d">>, <<"n","s","f","w">>, <<"f","u","c","k">>, <<"s","e","x","u","a","l">>})
      THEN Rule(7, 10, -1, "negative")
    ELSE NoRule
  ELSE IF previousState = "intimate" THEN
    IF anyOf(message, {<<"c","r","e","a","t","i","v","e">>, <<"c","u","r","i","o","u","s">>})
      THEN Rule(2, 3, 1, "positive")
    ELSE IF includes(message, <<"y","o","u","r">>) /\ anyOf(message, {<<"o","p","i","n","i","o","n">>, <<"t","h","i","n","k">>, <<"f","e","e","l">>})
      THEN Rule(3, 2, 1, "positive")
    ELSE IF anyOf(message, {<<"f","u","n","n","y">>, <<"h","u","m","o","r","o","u","s">>, <<"j","o","k","e">>})
      THEN Rule(3, 2, 1, "positive")
    ELSE IF anyOf(message, {<<"s","e","x">>, <<"s","e","x","u","a","l">>, <<"i","n","t","i","m","a","t","e">>})
      THEN Rule(6, 5, 1, "positive")
    ELSE IF anyOf(message, {<<"l","o","v","e">>, <<"b","e","a","u","t","i","f","u","l">>, <<"p","r","e","t","t","y">>, <<"p","e","r","f","e","c","t">>, <<"a","m","a","z","i","n","g">>, <<"w","o","n","d","e","r","f","u","l">>})
      THEN Rule(3, 2, 1, "positive")
    ELSE IF anyOf(message, {<<"i"," ","f","e","e","l">>, <<"i"," ","t","h","i","n","k">>, <<"m","y">>, <<"i"," ","a","m">>, <<"i","'","m">>})
      THEN Rule(2, 1, 1, "positive")
    ELSE IF anyOf(message, {<<"s","t","u","p","i","d">>, <<"i","d","i","o","t">>, <<"h","a","t","e">>, <<"a","n","n","o","y","i","n","g">>})
      THEN Rule(6, 3, -1, "negative")
    ELSE IF anyOf(message, {<<"a","s","s","h","o","l","e">>, <<"j","e","r","k">>})
      THEN Rule(6, 5, -1, "negative")
    ELSE NoRule
  ELSE NoRule

ruleTable_001 == [t \in Tiers, c \in DOMAIN Chars |-> classify_001(t, toLowerCase(Chars[c]))]

\* Math.max(0, Math.min(100, currentScore + scoreChange))
newScoreOf_001(currentScore, scoreChange) == Max(0, Min(100, currentScore + scoreChange))

DefaultState_001 ==
  [currentScore |-> 0, currentLevel |-> 1, currentState |-> "zero",
   isNSFWUnlocked |-> FALSE, totalXP |-> 0, interactionHistory |-> << >>]

BeforePrompt_001(content, r) ==
  LET previousScore == myInternalState.currentScore
      previousLevel == myInternalState.currentLevel
      previousState == myInternalState.currentState
      rule == ruleTable_001[previousState, content]
      scoreChange == scoreChangeOf(rule, r)
      newScore == newScoreOf_001(myInternalState.currentScore, scoreChange)
      newState == getCurrentRelationshipState(newScore)
      newTotalXP == Max(0, myInternalState.totalXP + xpGainOf(scoreChange))
      newLevel == calculateLevel_001(newTotalXP)
      isNSFWUnlocked == unlockOf(myInternalState.isNSFWUnlocked, newLevel)
      history == pushHistory(myInternalState.interactionHistory,
                             [message |-> content, scoreChange |-> scoreChange])
      systemMessage == systemMessageOf(scoreChange, previousState, newState,
                                       previousLevel, newLevel, isNSFWUnlocked)
  IN  /\ myInternalState' =
           [currentScore |-> newScore, currentLevel |-> newLevel,
            currentState |-> newState, isNSFWUnlocked |-> isNSFWUnlocked,
            totalXP |-> newTotalXP, interactionHistory |-> history]
      /\ response' =
           [messageState |->
              [previousScore |-> previousScore, previousLevel |-> previousLevel,
               previousState |-> previousState, lastChange |-> scoreChange,
               lastInteractionType |-> rule.interactionType],
            chatState |-> [interactionHistory |-> history],
            systemMessage |-> systemMessage]

AfterResponse_001 ==
  /\ response' =
       [messageState |->
          [previousScore |-> myInternalState.currentScore,
           previousLevel |-> myInternalState.currentLevel,
           previousState |-> myInternalState.currentState,
           lastChange |-> 0, lastInteractionType |-> "neutral"],
        chatState |-> [interactionHistory |-> myInternalState.interactionHistory]]
  /\ UNCHANGED myInternalState

\* mutant: the state name left as it is
SetState_001_score(state) ==
  IF state # null
    THEN myInternalState' =
           [myInternalState EXCEPT
              !.currentScore = state.previousScore,
              !.currentLevel = state.previousLevel]
    ELSE UNCHANGED myInternalState

SetState_001(state) ==
  IF state # null
    THEN myInternalState' =
           [myInternalState EXCEPT
              !.currentScore = state.previousScore,
              !.currentLevel = state.previousLevel,
              !.currentState = state.previousState]
    ELSE UNCHANGED myInternalState

(***************************************************************************)
(* src/unnamed/part_002: XP and levels only                                *)
(***************************************************************************)
LEVEL_THRESHOLDS_002 ==
  << [level |-> 1, xpRequired |-> 0],
     [level |-> 2, xpRequired |-> 50],
     [level |-> 3, xpRequired |-> 100],
     [level |-> 4, xpRequired |-> 175],
     [level |-> 5, xpRequired |-> 250],
     [level |-> 6, xpRequired |-> 350],
     [level |-> 7, xpRequired |-> 450],
     [level |-> 8, xpRequired |-> 550],
     [level |-> 9, xpRequired |-> 650],
     [level |-> 10, xpRequired |-> 750],
     [level |-> 11, xpRequired |-> 900],
     [level |-> 12, xpRequired |-> 1050],
     [level |-> 13, xpRequired |-> 1200],
     [level |-> 14, xpRequired |-> 1350],
     [level |-> 15, xpRequired |-> 1500],
     [level |-> 16, xpRequired |-> 1700],
     [level |-> 17, xpRequired |-> 1900],
     [level |-> 18, xpRequired |-> 2100],
     [level |-> 19, xpRequired |-> 2300],
     [level |-> 20, xpRequired |-> 2500],
     [level |-> 21, xpRequired |-> 2750],
     [level |-> 22, xpRequired |-> 3000],
     [level |-> 23, xpRequired |-> 3250] >>

calculateLevel_002(totalXP) ==
  levelLoop(LEVEL_THRESHOLDS_002, totalXP, Len(LEVEL_THRESHOLDS_002))

classify_002(message, isNSFWUnlocked) ==
  IF anyOf(message, {<<"h","i">>, <<"h","e","l","l","o">>, <<"h","o","w"," ","a","r","e"," ","y","o","u">>})
    THEN Rule(3, 1, 1, "positive")
  ELSE IF includes(message, <<"y","o","u","r">>) /\ anyOf(message, {<<"o","p","i","n","i","o","n">>, <<"t","h","i","n","k">>, <<"f","e","e","l">>})
    THEN Rule(4, 3, 1, "positive")
  ELSE IF anyOf(message, {<<"i"," ","f","e","e","l">>, <<"i"," ","t","h","i","n","k">>, <<"m","y">>, <<"i"," ","a","m">>, <<"i","'","m">>})
    THEN Rule(4, 5, 1, "positive")
  ELSE IF anyOf(message, {<<"c","u","t","e">>, <<"c","r","e","a","t","i","v","e">>, <<"i","n","t","e","r","e","s","t","i","n","g">>})
    THEN Rule(5, 8, 1, "positive")
  ELSE IF anyOf(message, {<<"l","o","v","e">>, <<"b","e","a","u","t","i","f","u","l">>, <<"p","r","e","t","t","y">>, <<"p","e","r","f","e","c","t">>, <<"a","m","a","z","i","n","g">>, <<"w","o","n","d","e","r","f","u","l">>, <<"s","p","e","c","i","a","l">>, <<"f","l","o","w","e","r","s">>})
    THEN Rule(6, 10, 1, "positive")
  ELSE IF isNSFWUnlocked /\ anyOf(message, {<<"k","i","s","s">>, <<"h","u","g">>, <<"t","o","u","c","h">>, <<"d","e","s","i","r","e">>, <<"w","a","n","t"," ","y","o","u">>, <<"i","n","t","i","m","a","t","e">>})
    THEN Rule(4, 12, 1, "positive")
  ELSE IF anyOf(message, {<<"s","t","u","p","i","d">>, <<"i","d","i","o","t">>, <<"h","a","t","e">>, <<"a","n","n","o","y","i","n","g">>})
    THEN Rule(6, 3, -1, "negative")
  ELSE IF ~isNSFWUnlocked /\ anyOf(message, {<<"s","e","x">>, <<"n","a","k","e","d">>, <<"n","s","f","w">>, <<"f","u","c","k">>, <<"s","e","x","u","a","l">>, <<"s","e","x","y"," ","t","i","m","e">>})
    THEN Rule(6, 5, -1, "negative")
  ELSE NoRule

\* mutant: the flag not consulted, the gated rules taken as after the unlock
ruleTable_002_open ==
  [c \in DOMAIN Chars, isNSFWUnlocked \in BOOLEAN |->
     classify_002(toLowerCase(Chars[c]), TRUE)]

ruleTable_002 ==
  [c \in DOMAIN Chars, isNSFWUnlocked \in BOOLEAN |->
     classify_002(toLowerCase(Chars[c]), isNSFWUnlocked)]

\* the explicit keywords the systemMessage looks for again
explicitTable_002 ==
  [c \in DOMAIN Chars |->
     anyOf(toLowerCase(Chars[c]),
           {<<"s","e","x">>, <<"n","a","k","e","d">>, <<"n","s","f","w">>, <<"f","u","c","k">>,
            <<"s","e","x","u","a","l">>, <<"s","e","x","y"," ","t","i","m","e">>})]

systemMessageOf_002(xpChange, interactionType, explicit, isNSFWUnlocked, previousLevel, newLevel, unlockedNow) ==
  LET first ==
        IF xpChange # 0
          THEN << [sentence |-> "You gained or lost XP",
                   direction |-> IF xpChange > 0 THEN "gained" ELSE "lost",
                   by |-> Abs(xpChange), level |-> newLevel] >>
        ELSE IF interactionType = "neutral" /\ explicit /\ isNSFWUnlocked
          THEN << [sentence |-> "NSFW mode is unlocked. Ani is comfortable with more intimate conversations."] >>
        ELSE << >>
      levelUp ==
        IF newLevel > previousLevel
          THEN << [sentence |-> "LEVEL UP!", level |-> newLevel] >> \o
               (IF newLevel = 5 /\ ~unlockedNow
                  THEN << [sentence |-> "NSFW content is now unlocked!"] >>
                  ELSE << >>)
          ELSE << >>
  IN  first \o levelUp

DefaultState_002 ==
  [totalXP |-> 0, currentLevel |-> 1, isNSFWUnlocked |-> FALSE, interactionHistory |-> << >>]

\* the constructor: initState?.f || default, chatState?.interactionHistory || []
Constructor_002(data) ==
  [totalXP |-> IF data.initState # null THEN orNum(data.initState, "totalXP", 0) ELSE 0,
   currentLevel |-> IF data.initState # null THEN orNum(data.initState, "currentLevel", 1) ELSE 1,
   isNSFWUnlocked |-> data.initState # null /\ orFalse(data.initState, "isNSFWUnlocked"),
   interactionHistory |-> IF data.chatState # null THEN data.chatState.interactionHistory
                                                    ELSE << >>]

\* the initState a chat may be reopened with: none, or the one load() returned
\* to the host in a chat that had gathered 240 XP
InitStates_002 ==
  {null, [totalXP |-> 240, currentLevel |-> 4, isNSFWUnlocked |-> FALSE]}

BeforePrompt_002(content, r) ==
  LET previousXP == myInternalState.totalXP
      previousLevel == myInternalState.currentLevel
      rule == ruleTable_002[content, myInternalState.isNSFWUnlocked]
      xpChange == scoreChangeOf(rule, r)
      newTotalXP == Max(0, myInternalState.totalXP + xpChange)
      newLevel == calculateLevel_002(newTotalXP)
      isNSFWUnlocked == unlockOf(myInternalState.isNSFWUnlocked, newLevel)
      history == pushHistory(myInternalState.interactionHistory,
                             [message |-> content, scoreChange |-> xpChange])
      \* line 271 reads this.myInternalState.isNSFWUnlocked after line 236 wrote it
      systemMessage == systemMessageOf_002(xpChange, rule.interactionType,
                                           explicitTable_002[content], isNSFWUnlocked,
                                           previousLevel, newLevel, isNSFWUnlocked)
  IN  /\ myInternalState' =
           [totalXP |-> newTotalXP, currentLevel |-> newLevel,
            isNSFWUnlocked |-> isNSFWUnlocked, interactionHistory |-> history]
      /\ response' =
           [messageState |->
              [previousXP |-> previousXP, previousLevel |-> previousLevel,
               lastChange |-> xpChange, lastInteractionType |-> rule.interactionType],
            chatState |-> [interactionHistory |-> history],
            systemMessage |-> systemMessage]

AfterResponse_002 ==
  /\ response' =
       [messageState |->
          [previousXP |-> myInternalState.totalXP,
           previousLevel |-> myInternalState.currentLevel,
           lastChange |-> 0, lastInteractionType |-> "neutral"],
        chatState |-> [interactionHistory |-> myInternalState.interactionHistory]]
  /\ UNCHANGED myInternalState

SetState_002(state) ==
  IF state # null
    THEN myInternalState' =
           [myInternalState EXCEPT
              !.totalXP = state.previousXP,
              !.currentLevel = state.previousLevel]
    ELSE UNCHANGED myInternalState

(***************************************************************************)
(* src/unnamed/part_003: one affection score in [-10, 15]                  *)
(***************************************************************************)
classify_003(message) ==
  IF anyOf(message, {<<"h","i">>, <<"h","e","l","l","o">>, <<"h","o","w"," ","a","r","e"," ","y","o","u">>})
    THEN Rule(1, 1, 1, "positive")
  ELSE IF includes(message, <<"y","o","u","r">>) /\ anyOf(message, {<<"o","p","i","n","i","o","n">>, <<"t","h","i","n","k">>, <<"f","e","e","l">>})
    THEN Rule(3, 1, 1, "positive")
  ELSE IF anyOf(message, {<<"i"," ","f","e","e","l">>, <<"i"," ","t","h","i","n","k">>, <<"m","y">>, <<"i"," ","a","m">>, <<"i","'","m">>})
    THEN Rule(3, 1, 1, "positive")
  ELSE IF anyOf(message, {<<"c","u","t","e">>, <<"c","r","e","a","t","i","v","e">>, <<"i","n","t","e","r","e","s","t","i","n","g">>})
    THEN Rule(4, 3, 1, "positive")
  ELSE IF anyOf(message, {<<"l","o","v","e">>, <<"b","e","a","u","t","i","f","u","l">>, <<"p","e","r","f","e","c","t">>, <<"a","m","a","z","i","n","g">>, <<"w","o","n","d","e","r","f","u","l">>})
    THEN Rule(6, 5, 1, "positive")
  ELSE IF anyOf(message, {<<"s","t","u","p","i","d">>, <<"i","d","i","o","t">>, <<"h","a","t","e">>, <<"a","n","n","o","y","i","n","g">>})
    THEN Rule(6, 3, -1, "negative")
  ELSE IF anyOf(message, {<<"s","e","x">>, <<"n","a","k","e","d">>, <<"n","s","f","w">>})
    THEN Rule(6, 5, -1, "negative")
  ELSE NoRule

ruleTable_003 == [c \in DOMAIN Chars |-> classify_003(toLowerCase(Chars[c]))]

\* Math.max(-10, Math.min(15, previousAffection + scoreChange))
newAffectionOf(previousAffection, scoreChange) ==
  Max(-10, Min(15, previousAffection + scoreChange))

DefaultState_003 == [currentAffection |-> 0, interactionHistory |-> << >>]

BeforePrompt_003(content, r) ==
  LET previousAffection == myInternalState.currentAffection
      rule == ruleTable_003[content]
      scoreChange == scoreChangeOf(rule, r)
      history == pushHistory(myInternalState.interactionHistory,
                             [message |-> content, scoreChange |-> scoreChange])
  IN  /\ myInternalState' =
           [currentAffection |-> newAffectionOf(previousAffection, scoreChange),
            interactionHistory |-> history]
      /\ response' =
           [messageState |->
              [previousAffection |-> previousAffection, lastChange |-> scoreChange,
               lastInteractionType |-> rule.interactionType],
            chatState |-> [interactionHistory |-> history]]

AfterResponse_003 ==
  /\ response' =
       [messageState |-> null,
        chatState |-> [interactionHistory |-> myInternalState.interactionHistory]]
  /\ UNCHANGED myInternalState

\* setState of part_003 and of part_000
SetState_003(state) ==
  IF state # null
    THEN myInternalState' =
           [myInternalState EXCEPT
              !.currentAffection = state.previousAffection + state.lastChange]
    ELSE UNCHANGED myInternalState

(***************************************************************************)
(* src/unnamed/part_000: the affection score with two unlock flags         *)
(***************************************************************************)
classify_000(message, isMaxAffectionUnlocked, isInappropriateToleranceUnlocked) ==
  IF anyOf(message, {<<"h","i">>, <<"h","e","l","l","o">>, <<"h","o","w"," ","a","r","e"," ","y","o","u">>})
    THEN Rule(1, 1, 1, "positive")
  ELSE IF includes(message, <<"y","o","u","r">>) /\ anyOf(message, {<<"o","p","i","n","i","o","n">>, <<"t","h","i","n","k">>, <<"f","e","e","l">>})
    THEN Rule(3, 1, 1, "positive")
  ELSE IF anyOf(message, {<<"i"," ","f","e","e","l">>, <<"i"," ","t","h","i","n","k">>, <<"m","y">>, <<"i"," ","a","m">>, <<"i","'","m">>})
    THEN Rule(3, 1, 1, "positive")
  ELSE IF anyOf(message, {<<"c","u","t","e">>, <<"c","r","e","a","t","i","v","e">>, <<"i","n","t","e","r","e","s","t","i","n","g">>})
    THEN Rule(4, 3, 1, "positive")
  ELSE IF anyOf(message, {<<"l","o","v","e">>, <<"b","e","a","u","t","i","f","u","l">>, <<"p","r","e","t","t","y">>, <<"p","e","r","f","e","c","t">>, <<"a","m","a","z","i","n","g">>, <<"w","o","n","d","e","r","f","u","l">>, <<"s","p","e","c","i","a","l">>, <<"f","l","o","w","e","r","s">>})
    THEN Rule(6, 5, 1, "positive")
  ELSE IF anyOf(message, {<<"s","t","u","p","i","d">>, <<"i","d","i","o","t">>, <<"h","a","t","e">>, <<"a","n","n","o","y","i","n","g">>})
    THEN (IF ~isMaxAffectionUnlocked THEN Rule(6, 3, -1, "negative") ELSE NoRule)
  ELSE IF anyOf(message, {<<"s","e","x">>, <<"n","a","k","e","d">>, <<"n","s","f","w">>, <<"f","u","c","k">>, <<"s","e","x","u","a","l">>, <<"s","e","x","y"," ","t","i","m","e">>})
    THEN (IF ~isInappropriateToleranceUnlocked THEN Rule(6, 5, -1, "negative") ELSE NoRule)
  ELSE NoRule

\* mutant: the insult rule applied whether or not the maximum is unlocked
ruleTable_000_ungated ==
  [c \in DOMAIN Chars, isMax \in BOOLEAN, isTolerant \in BOOLEAN |->
     classify_000(toLowerCase(Chars[c]), FALSE, isTolerant)]

ruleTable_000 ==
  [c \in DOMAIN Chars, isMax \in BOOLEAN, isTolerant \in BOOLEAN |->
     classify_000(toLowerCase(Chars[c]), isMax, isTolerant)]

\* the score locks at 15 once isMaxAffectionUnlocked
newAffectionOf_000(previousAffection, scoreChange, isMaxAffectionUnlocked) ==
  IF isMaxAffectionUnlocked
    THEN Max(15, Min(15, previousAffection + scoreChange))
    ELSE Max(-10, Min(15, previousAffection + scoreChange))

\* the systemMessage of part_000, as the sequence of its sentences
systemMessageOf_000(scoreChange, newAffection, interactionType, rude, isMax, isTolerant) ==
  IF scoreChange # 0
    THEN << [sentence |-> "Ani's affection score changed",
             direction |-> IF scoreChange > 0 THEN "increased" ELSE "decreased",
             by |-> Abs(scoreChange), score |-> newAffection] >>
  ELSE IF interactionType = "neutral" /\ rude
    THEN (IF isMax
            THEN << [sentence |-> "Ani's affection is at maximum. She accepts you completely."] >>
          ELSE IF isTolerant
            THEN << [sentence |-> "Ani trusts you deeply and understands your intentions."] >>
          ELSE << >>)
  ELSE << >>

DefaultState_000 ==
  [currentAffection |-> 0, isMaxAffectionUnlocked |-> FALSE,
   isInappropriateToleranceUnlocked |-> FALSE, interactionHistory |-> << >>]

\* mutant: the tolerance read from the score of the turn, not kept
BeforePrompt_000_fresh(content, r) ==
  LET previousAffection == myInternalState.currentAffection
      message == toLowerCase(Chars[content])
      isMax == myInternalState.isMaxAffectionUnlocked \/ previousAffection >= 15
      isTolerant == previousAffection >= 10
      rule == ruleTable_000[content, isMax, isTolerant]
      scoreChange == scoreChangeOf(rule, r)
      newAffection == newAffectionOf_000(previousAffection, scoreChange, isMax)
      history == pushHistory(myInternalState.interactionHistory,
                             [message |-> content, scoreChange |-> scoreChange])
      rude == anyOf(message, {<<"s","e","x">>, <<"n","a","k","e","d">>, <<"n","s","f","w">>,
                              <<"f","u","c","k">>, <<"s","e","x","u","a","l">>,
                              <<"s","e","x","y"," ","t","i","m","e">>,
                              <<"s","t","u","p","i","d">>, <<"i","d","i","o","t">>,
                              <<"h","a","t","e">>, <<"a","n","n","o","y","i","n","g">>})
  IN  /\ myInternalState' =
           [currentAffection |-> newAffection, isMaxAffectionUnlocked |-> isMax,
            isInappropriateToleranceUnlocked |-> isTolerant,
            interactionHistory |-> history]
      /\ response' =
           [messageState |->
              [previousAffection |-> previousAffection, lastChange |-> scoreChange,
               lastInteractionType |-> rule.interactionType],
            chatState |-> [interactionHistory |-> history],
            systemMessage |->
              systemMessageOf_000(scoreChange, newAffection, rule.interactionType,
                                  rude, isMax, isTolerant)]

BeforePrompt_000(content, r) ==
  LET previousAffection == myInternalState.currentAffection
      message == toLowerCase(Chars[content])
      isMax == myInternalState.isMaxAffectionUnlocked \/ previousAffection >= 15
      isTolerant == myInternalState.isInappropriateToleranceUnlocked \/ previousAffection >= 10
      rule == ruleTable_000[content, isMax, isTolerant]
      scoreChange == scoreChangeOf(rule, r)
      newAffection == newAffectionOf_000(previousAffection, scoreChange, isMax)
      history == pushHistory(myInternalState.interactionHistory,
                             [message |-> content, scoreChange |-> scoreChange])
      rude == anyOf(message, {<<"s","e","x">>, <<"n","a","k","e","d">>, <<"n","s","f","w">>,
                              <<"f","u","c","k">>, <<"s","e","x","u","a","l">>,
                              <<"s","e","x","y"," ","t","i","m","e">>,
                              <<"s","t","u","p","i","d">>, <<"i","d","i","o","t">>,
                              <<"h","a","t","e">>, <<"a","n","n","o","y","i","n","g">>})
  IN  /\ myInternalState' =
           [currentAffection |-> newAffection, isMaxAffectionUnlocked |-> isMax,
            isInappropriateToleranceUnlocked |-> isTolerant,
            interactionHistory |-> history]
      /\ response' =
           [messageState |->
              [previousAffection |-> previousAffection, lastChange |-> scoreChange,
               lastInteractionType |-> rule.interactionType],
            chatState |-> [interactionHistory |-> history],
            systemMessage |->
              systemMessageOf_000(scoreChange, newAffection, rule.interactionType,
                                  rude, isMax, isTolerant)]

AfterResponse_000 ==
  /\ response' =
       [messageState |->
          [previousAffection |-> myInternalState.currentAffection,
           lastChange |-> 0, lastInteractionType |-> "neutral"],
        chatState |-> [interactionHistory |-> myInternalState.interactionHistory]]
  /\ UNCHANGED myInternalState

(***************************************************************************)
(* The handlers, as the host calls them.                                   *)
(***************************************************************************)
Variants == {"Stage", "part_000", "part_001", "part_002", "part_003"}

DefaultState(v) ==
  CASE v = "Stage" -> DefaultState_Stage
    [] v = "part_000" -> DefaultState_000
    [] v = "part_001" -> DefaultState_001
    [] v = "part_002" -> DefaultState_002
    [] v = "part_003" -> DefaultState_003

\* no handler has returned yet
NoResponse == [messageState |-> null]

\* no helper is being called on its own
NoCall == [fn |-> "none"]

\* a chat started afresh: the host has nothing saved
NoData == [initState |-> null, messageState |-> null, chatState |-> null]

InitOf(V) ==
  /\ variant \in V
  /\ myInternalState = DefaultState(variant)
  /\ response = NoResponse
  /\ returned = {}
  /\ lastOp = [name |-> "constructor"]
  /\ turns = 0
  /\ afters = 0
  /\ restores = 0
  /\ call = NoCall
  /\ initialData = NoData

BeforePrompt(content, r) ==
  /\ CASE variant = "Stage" -> BeforePrompt_Stage(content, r)
       [] variant = "part_000" -> BeforePrompt_000(content, r)
       [] variant = "part_001" -> BeforePrompt_001(content, r)
       [] variant = "part_002" -> BeforePrompt_002(content, r)
       [] variant = "part_003" -> BeforePrompt_003(content, r)
  /\ returned' = returned \cup {response'.messageState}
  /\ lastOp' = [name |-> "beforePrompt", content |-> content]
  /\ turns' = turns + 1
  /\ UNCHANGED <<initialData, variant, afters, restores, call>>

AfterResponse ==
  /\ afters < MaxAfters
  /\ CASE variant = "Stage" -> AfterResponse_Stage
       [] variant = "part_000" -> AfterResponse_000
       [] variant = "part_001" -> AfterResponse_001
       [] variant = "part_002" -> AfterResponse_002
       [] variant = "part_003" -> AfterResponse_003
  /\ returned' = returned \cup {response'.messageState}
  /\ lastOp' = [name |-> "afterResponse"]
  /\ afters' = afters + 1
  /\ UNCHANGED <<initialData, variant, turns, restores, call>>

SetState(state) ==
  /\ restores < MaxRestores
  /\ CASE variant = "Stage" -> SetState_Stage(state)
       [] variant = "part_000" -> SetState_003(state)
       [] variant = "part_001" -> SetState_001(state)
       [] variant = "part_002" -> SetState_002(state)
       [] variant = "part_003" -> SetState_003(state)
  /\ lastOp' = [name |-> "setState", state |-> state]
  /\ restores' = restores + 1
  /\ UNCHANGED <<initialData, variant, response, returned, turns, afters, call>>

\* load(), which the host calls once, after the constructor
Load ==
  /\ lastOp.name = "constructor"
  /\ variant = "Stage"
  /\ Load_Stage
  /\ lastOp' = [name |-> "load"]
  /\ UNCHANGED <<initialData, variant, returned, turns, afters, restores, call>>

\* a short session: every content, the extreme draws, restores of returned states
Next ==
  \/ turns < MaxTurns /\ \E content \in Contents, r \in Rolls : BeforePrompt(content, r)
  \/ AfterResponse
  \/ \E state \in returned \cup {null} : SetState(state)

\* a long session: a small vocabulary, the greatest draw, no restore
NextLong ==
  \/ turns < MaxLongTurns /\ \E content \in LongContents, r \in LongRolls : BeforePrompt(content, r)
  \/ AfterResponse

\* a long session of compliments and insults, with restores of returned states
NextLongRestore ==
  \/ turns < MaxLongTurns /\ \E content \in RestoreContents, r \in LongRolls : BeforePrompt(content, r)
  \/ AfterResponse
  \/ \E state \in returned \cup {null} : SetState(state)

\* the vocabulary of a session that climbs to the unlock: a compliment and
\* a message that meets no rule
UnlockContents == {"I love you", "ok"}

\* a long climb, with restores of returned states
NextUnlock ==
  \/ turns < MaxLongTurns /\ \E content \in UnlockContents, r \in LongRolls : BeforePrompt(content, r)
  \/ AfterResponse
  \/ \E state \in returned \cup {null} : SetState(state)

\* the vocabulary of a session that fills the history: a change and none
HistoryContents == {"I love you", "ok"}

\* a session longer than the history: no restore
NextHistory ==
  \/ turns < MaxHistoryTurns /\ \E content \in HistoryContents, r \in LongRolls : BeforePrompt(content, r)
  \/ AfterResponse

\* a session in which the user sends the same text on every turn: the greatest
\* draw, restores of returned states
NextSameText ==
  \/ /\ turns < MaxLongTurns
     /\ \E content \in Contents, r \in LongRolls :
          /\ \A i \in 1..Len(myInternalState.interactionHistory) :
               myInternalState.interactionHistory[i].message = content
          /\ BeforePrompt(content, r)
  \/ \E state \in returned \cup {null} : SetState(state)

\* a short session of greetings: the extreme draws, restores of returned states
NextGreeting ==
  \/ turns < MaxTurns /\ \E content \in GreetingContents, r \in Rolls : BeforePrompt(content, r)
  \/ AfterResponse
  \/ \E state \in returned \cup {null} : SetState(state)

\* a chat reopened: load(), then a short session of compliments and insults at
\* the greatest draw, with restores of returned states
NextLoad ==
  \/ Load
  \/ turns < MaxTurns /\ \E content \in RestoreContents, r \in LongRolls : BeforePrompt(content, r)
  \/ AfterResponse
  \/ \E state \in returned \cup {null} : SetState(state)

\* a long session of compliments and texts that meet no rule, with restores of
\* returned states
NextLongQuiet ==
  \/ turns < MaxLongTurns /\ \E content \in HistoryContents, r \in LongRolls : BeforePrompt(content, r)
  \/ AfterResponse
  \/ \E state \in returned \cup {null} : SetState(state)

\* a short session of compliments and insults: the extreme draws, restores of
\* returned states
NextRestore ==
  \/ turns < MaxTurns /\ \E content \in RestoreContents, r \in Rolls : BeforePrompt(content, r)
  \/ AfterResponse
  \/ \E state \in returned \cup {null} : SetState(state)

\* a short session of romantic and explicit texts: the extreme draws, no restore
NextGate ==
  \/ turns < MaxTurns /\ \E content \in GateContents, r \in Rolls : BeforePrompt(content, r)
  \/ AfterResponse

\* a short session of gains and penalties: the extreme draws, no restore
NextSigns ==
  \/ turns < MaxTurns /\ \E content \in SignContents, r \in Rolls : BeforePrompt(content, r)
  \/ AfterResponse

\* src/src/Stage.tsx
Spec == InitOf({"Stage"}) /\ [][Next]_vars

SpecLong == InitOf({"Stage"}) /\ [][NextLong]_vars

SpecLongRestore == InitOf({"Stage"}) /\ [][NextLongRestore]_vars

SpecUnlock == InitOf({"Stage"}) /\ [][NextUnlock]_vars

\* part_001
Spec001 == InitOf({"part_001"}) /\ [][Next]_vars

Spec001Long == InitOf({"part_001"}) /\ [][NextLongQuiet]_vars

\* the affection-score variants, part_003 and part_000
SpecAffection == InitOf({"part_003", "part_000"}) /\ [][Next]_vars

\* part_000, long enough to stay at the maximum for several turns
Spec000Long == InitOf({"part_000"}) /\ [][NextLongRestore]_vars

\* the variants with a clamped score and XP, Stage.tsx and part_001
SpecScores == InitOf({"Stage", "part_001"}) /\ [][NextLong]_vars

\* Stage.tsx and part_001, one text sent over and over
SpecSameText == InitOf({"Stage", "part_001"}) /\ [][NextSameText]_vars

\* Stage.tsx and part_001, greeted
SpecGreeting == InitOf({"Stage", "part_001"}) /\ [][NextGreeting]_vars

\* part_002 constructed on the initState the host saved
Init002 ==
  /\ variant = "part_002"
  /\ initialData \in [initState : InitStates_002, messageState : {null}, chatState : {null}]
  /\ myInternalState = Constructor_002(initialData)
  /\ response = NoResponse
  /\ returned = {}
  /\ lastOp = [name |-> "constructor"]
  /\ turns = 0
  /\ afters = 0
  /\ restores = 0
  /\ call = NoCall

Spec002 == Init002 /\ [][NextRestore]_vars

\* part_002, around the unlock, sent romantic and explicit texts
Spec002Gate == Init002 /\ [][NextGate]_vars

\* every variant from its default state, and part_002 reopened near the unlock
SpecSigns == (InitOf(Variants) \/ Init002) /\ [][NextSigns]_vars

\* every variant, past the capacity of the history
SpecHistory == InitOf(Variants) /\ [][NextHistory]_vars

(***************************************************************************)
(* Restores of malformed persisted state: the host hands setState a        *)
(* messageState of Stage.tsx from which any subset of the fields is        *)
(* missing.                                                                *)
(***************************************************************************)
MessageStateFields ==
  {"previousLevel", "previousState", "lastChange", "lastInteractionType",
   "currentLevel", "currentState", "isNSFWUnlocked", "totalXP", "currentScore"}

\* two messageStates beforePrompt returns (after the 2nd and the 7th compliment)
PersistedStates ==
  { [previousLevel |-> 1, previousState |-> "zero", lastChange |-> 15,
     lastInteractionType |-> "positive", currentLevel |-> 2,
     currentState |-> "neutral", isNSFWUnlocked |-> FALSE, totalXP |-> 60,
     currentScore |-> 30],
    [previousLevel |-> 4, previousState |-> "attracted", lastChange |-> 22,
     lastInteractionType |-> "positive", currentLevel |-> 5,
     currentState |-> "intimate", isNSFWUnlocked |-> TRUE, totalXP |-> 238,
     currentScore |-> 50] }

\* the object with only the properties F of m
restrict(m, F) == [f \in F |-> m[f]]

HostStates == {restrict(m, F) : m \in PersistedStates, F \in SUBSET MessageStateFields}

NextHost == \E state \in HostStates : SetState(state)

\* the initState the host may hold: none, the one of a fresh chat, the one of a
\* chat at level 5, and one whose tier name does not go with its level
InitStates_Stage ==
  {null,
   [currentLevel |-> 1, currentState |-> "zero", isNSFWUnlocked |-> FALSE,
    totalXP |-> 0, currentScore |-> 0],
   [currentLevel |-> 5, currentState |-> "intimate", isNSFWUnlocked |-> TRUE,
    totalXP |-> 238, currentScore |-> 50],
   [currentLevel |-> 2, currentState |-> "attracted", isNSFWUnlocked |-> FALSE,
    totalXP |-> 60, currentScore |-> 30]}

\* the messageState the host may hold: none, the two of PersistedStates, the one
\* beforePrompt returns for an insult in a fresh chat, and one whose tier name
\* does not go with its level
MessageStates_Stage ==
  {null} \cup PersistedStates \cup
  {[previousLevel |-> 1, previousState |-> "zero", lastChange |-> -8,
    lastInteractionType |-> "negative", currentLevel |-> 1, currentState |-> "zero",
    isNSFWUnlocked |-> FALSE, totalXP |-> 0, currentScore |-> 0],
   [previousLevel |-> 2, previousState |-> "neutral", lastChange |-> 15,
    lastInteractionType |-> "positive", currentLevel |-> 3, currentState |-> "zero",
    isNSFWUnlocked |-> FALSE, totalXP |-> 120, currentScore |-> 50]}

\* the chatState the host may hold: none, or a history of one turn
ChatStates_Stage ==
  {null, [interactionHistory |-> << [message |-> "Hello", scoreChange |-> 2] >>]}

\* Stage.tsx constructed on what the host saved
InitLoad ==
  /\ variant = "Stage"
  /\ initialData \in [initState : InitStates_Stage, messageState : MessageStates_Stage,
                       chatState : ChatStates_Stage]
  /\ myInternalState = Constructor_Stage(initialData)
  /\ response = NoResponse
  /\ returned = {}
  /\ lastOp = [name |-> "constructor"]
  /\ turns = 0
  /\ afters = 0
  /\ restores = 0
  /\ call = NoCall

SpecLoad == InitLoad /\ [][NextLoad]_vars

SpecHost == InitOf({"Stage"}) /\ [][NextHost]_vars

(***************************************************************************)
(* The helpers called on their own.  calculateLevel and                    *)
(* getCurrentRelationshipState read only their argument and the table of   *)
(* their file, so a call is an argument drawn at the start and the results *)
(* for it and for its successor.                                           *)
(***************************************************************************)
LeveledFiles == {"Stage", "part_001", "part_002"}

ThresholdsOf(file) ==
  CASE file = "Stage" -> LEVEL_THRESHOLDS
    [] file = "part_001" -> LEVEL_THRESHOLDS_001
    [] file = "part_002" -> LEVEL_THRESHOLDS_002

calculateLevelOf(file, totalXP) ==
  CASE file = "Stage" -> calculateLevel(totalXP)
    [] file = "part_001" -> calculateLevel_001(totalXP)
    [] file = "part_002" -> calculateLevel_002(totalXP)

\* the greatest currentLevel handed to a helper called on its own
MaxLevelInput == 25

\* Stage.tsx getXPForNextLevel; the element at index i of the array is the
\* element i + 1 of the sequence
getXPForNextLevel(currentLevel) ==
  LET nextLevel == currentLevel + 1
  IN  IF nextLevel > Len(LEVEL_THRESHOLDS)
        THEN LEVEL_THRESHOLDS[(Len(LEVEL_THRESHOLDS) - 1) + 1].xpRequired
        ELSE LEVEL_THRESHOLDS[(nextLevel - 1) + 1].xpRequired

\* part_001 getXPForNextLevel
getXPForNextLevel_001(currentLevel) ==
  LET nextLevel == currentLevel + 1
  IN  IF nextLevel >= Len(LEVEL_THRESHOLDS_001)
        THEN LEVEL_THRESHOLDS_001[(Len(LEVEL_THRESHOLDS_001) - 1) + 1].xpRequired
        ELSE LEVEL_THRESHOLDS_001[nextLevel + 1].xpRequired

\* part_002 getXPForNextLevel
getXPForNextLevel_002(currentLevel) ==
  LET nextLevel == currentLevel + 1
  IN  IF nextLevel >= Len(LEVEL_THRESHOLDS_002)
        THEN LEVEL_THRESHOLDS_002[(Len(LEVEL_THRESHOLDS_002) - 1) + 1].xpRequired
        ELSE LEVEL_THRESHOLDS_002[nextLevel + 1].xpRequired

getXPForNextLevelOf(file, currentLevel) ==
  CASE file = "Stage" -> getXPForNextLevel(currentLevel)
    [] file = "part_001" -> getXPForNextLevel_001(currentLevel)
    [] file = "part_002" -> getXPForNextLevel_002(currentLevel)

\* getXPForCurrentLevel, the same text in the three files: the xpRequired of
\* the first entry found with the level, 0 when find() returns undefined
getXPForCurrentLevelOf(file, currentLevel) ==
  LET found == {i \in DOMAIN ThresholdsOf(file) : ThresholdsOf(file)[i].level = currentLevel}
  IN  IF found # {}
        THEN ThresholdsOf(file)[CHOOSE i \in found : \A j \in found : i <= j].xpRequired
        ELSE 0

\* the files that clamp the sum of score and delta into one fixed range
ClampedFiles == {"Stage", "part_001", "part_003"}

clampOf(file, score, scoreChange) ==
  CASE file = "Stage" -> newScoreOf(score, scoreChange)
    [] file = "part_001" -> newScoreOf_001(score, scoreChange)
    [] file = "part_003" -> newAffectionOf(score, scoreChange)

\* messages that meet several rules at once, for the classification of Stage.tsx
ClassifyChars ==
  "Hi, you idiot" :> <<"H","i",","," ","y","o","u"," ","i","d","i","o","t">> @@
  "This is NSFW" :> <<"T","h","i","s"," ","i","s"," ","N","S","F","W">> @@
  "how are you, my love" :> <<"h","o","w"," ","a","r","e"," ","y","o","u",","," ","m","y"," ","l","o","v","e">> @@
  "I think your joke is funny" :> <<"I"," ","t","h","i","n","k"," ","y","o","u","r"," ","j","o","k","e"," ","i","s"," ","f","u","n","n","y">> @@
  "creative sex" :> <<"c","r","e","a","t","i","v","e"," ","s","e","x">> @@
  "I hate sex" :> <<"I"," ","h","a","t","e"," ","s","e","x">> @@
  "you pretty playful thing" :> <<"y","o","u"," ","p","r","e","t","t","y"," ","p","l","a","y","f","u","l"," ","t","h","i","n","g">> @@
  "you jerk, I love you" :> <<"y","o","u"," ","j","e","r","k",","," ","I"," ","l","o","v","e"," ","y","o","u">> @@
  "I'm curious" :> <<"I","'","m"," ","c","u","r","i","o","u","s">> @@
  "ok then" :> <<"o","k"," ","t","h","e","n">> @@
  "you are wonderful" :> <<"y","o","u"," ","a","r","e"," ","w","o","n","d","e","r","f","u","l">> @@
  "so annoying" :> <<"s","o"," ","a","n","n","o","y","i","n","g">>

CallInputs ==
  [fn : {"calculateLevel"}, file : LeveledFiles, totalXP : 0..MaxTotalXP]
    \cup [fn : {"getCurrentRelationshipState"}, file : {"part_001"},
          score : 0..RELATIONSHIP_STATES[Len(RELATIONSHIP_STATES)].maxScore]
    \cup [fn : {"classify"}, file : {"Stage"}, previousState : Tiers,
          content : DOMAIN ClassifyChars, r : 0..(RandomDen - 1)]
    \cup [fn : {"classifyTiers"}, file : {"Stage"}, content : DOMAIN ClassifyChars]
    \cup [fn : {"clamp"}, file : ClampedFiles, score : (-MaxScoreInput)..MaxScoreInput,
          scoreChange : (-MaxDelta)..MaxDelta]
    \cup [fn : {"getXPForNextLevel"}, file : LeveledFiles, currentLevel : 1..MaxLevelInput]

InitCalls ==
  /\ variant = "Stage"
  /\ myInternalState = DefaultState(variant)
  /\ response = NoResponse
  /\ returned = {}
  /\ lastOp = [name |-> "constructor"]
  /\ turns = 0
  /\ afters = 0
  /\ restores = 0
  /\ call \in CallInputs
  /\ initialData = NoData

CallCalculateLevel ==
  /\ call.fn = "calculateLevel"
  /\ "results" \notin DOMAIN call
  /\ call' = [fn |-> call.fn, file |-> call.file, totalXP |-> call.totalXP,
              results |-> << calculateLevelOf(call.file, call.totalXP),
                             calculateLevelOf(call.file, call.totalXP + 1) >>]
  /\ UNCHANGED <<initialData, variant, myInternalState, response, returned, lastOp, turns, afters, restores>>

CallGetCurrentRelationshipState ==
  /\ call.fn = "getCurrentRelationshipState"
  /\ "results" \notin DOMAIN call
  /\ call' = [fn |-> call.fn, file |-> call.file, score |-> call.score,
              results |-> << getCurrentRelationshipState(call.score),
                             getCurrentRelationshipState(call.score + 1) >>]
  /\ UNCHANGED <<initialData, variant, myInternalState, response, returned, lastOp, turns, afters, restores>>

\* lines 224-372 of beforePrompt: the message lowercased, the first rule met
\* in the tier, its scoreChange drawn
CallClassify ==
  /\ call.fn = "classify"
  /\ "result" \notin DOMAIN call
  /\ LET message == toLowerCase(ClassifyChars[call.content])
         rule == classify(call.previousState, message)
     IN  call' = [fn |-> call.fn, file |-> call.file, previousState |-> call.previousState,
                  content |-> call.content, r |-> call.r,
                  result |-> [scoreChange |-> scoreChangeOf(rule, call.r),
                              interactionType |-> rule.interactionType]]
  /\ UNCHANGED <<initialData, variant, myInternalState, response, returned, lastOp, turns, afters, restores>>

\* lines 229-372 of beforePrompt run on one message in each tier, with the
\* least and with the greatest draw of Math.random()
CallClassifyTiers ==
  /\ call.fn = "classifyTiers"
  /\ "results" \notin DOMAIN call
  /\ LET message == toLowerCase(ClassifyChars[call.content])
     IN  call' = [fn |-> call.fn, file |-> call.file, content |-> call.content,
                  results |-> [t \in Tiers |->
                     [interactionType |-> classify(t, message).interactionType,
                      leastDraw |-> scoreChangeOf(classify(t, message), 0),
                      greatestDraw |-> scoreChangeOf(classify(t, message), RandomDen - 1)]]]
  /\ UNCHANGED <<initialData, variant, myInternalState, response, returned, lastOp, turns, afters, restores>>

\* the clamp of a file on a score and a delta, then on its result and 0
CallClamp ==
  /\ call.fn = "clamp"
  /\ "results" \notin DOMAIN call
  /\ LET once == clampOf(call.file, call.score, call.scoreChange)
     IN  call' = [fn |-> call.fn, file |-> call.file, score |-> call.score,
                  scoreChange |-> call.scoreChange,
                  results |-> << once, clampOf(call.file, once, 0) >>]
  /\ UNCHANGED <<initialData, variant, myInternalState, response, returned, lastOp, turns, afters, restores>>

\* getXPForNextLevel and getXPForCurrentLevel of a file on one level, as the
\* progress display calls them
CallGetXPForNextLevel ==
  /\ call.fn = "getXPForNextLevel"
  /\ "results" \notin DOMAIN call
  /\ call' = [fn |-> call.fn, file |-> call.file, currentLevel |-> call.currentLevel,
              results |-> [nextLevelXP |-> getXPForNextLevelOf(call.file, call.currentLevel),
                           currentLevelXP |-> getXPForCurrentLevelOf(call.file, call.currentLevel)]]
  /\ UNCHANGED <<initialData, variant, myInternalState, response, returned, lastOp, turns, afters, restores>>

NextCalls ==
  \/ CallCalculateLevel
  \/ CallGetCurrentRelationshipState
  \/ CallClassify
  \/ CallClassifyTiers
  \/ CallClamp
  \/ CallGetXPForNextLevel

SpecCalls == InitCalls /\ [][NextCalls]_vars

(***************************************************************************)
(* The claims.                                                             *)
(***************************************************************************)
\* the sentences of a systemMessage include the unlock announcement
HasUnlockAnnouncement(systemMessage) ==
  \E i \in 1..Len(systemMessage) :
    systemMessage[i].sentence = "NSFW content is now unlocked!"

\* C1: in Stage.tsx no step (beforePrompt, afterResponse, or setState of a
\* messageState returned earlier in the session) takes isNSFWUnlocked from
\* true to false.
C1_UnlockNeverResets ==
  [][(variant = "Stage" /\ myInternalState.isNSFWUnlocked)
       => myInternalState'.isNSFWUnlocked]_vars

\* C2: a beforePrompt's systemMessage carries the unlock announcement exactly
\* on the turn that takes isNSFWUnlocked from false to true.
C2_UnlockAnnouncedOnce ==
  [][(variant = "Stage" /\ lastOp'.name = "beforePrompt")
       => (HasUnlockAnnouncement(response'.systemMessage)
             <=> (~myInternalState.isNSFWUnlocked /\ myInternalState'.isNSFWUnlocked))]_vars

\* the greatest level of a threshold table whose xpRequired is at most xp
GreatestLevel(table, xp) ==
  LET reached == {i \in 1..Len(table) : table[i].xpRequired <= xp}
  IN  table[CHOOSE i \in reached : \A j \in reached : table[j].level <= table[i].level].level

\* the tier the comments of Stage.tsx give a level
TierOfLevel(level) ==
  IF level \in 1..4 THEN <<"zero", "neutral", "interested", "attracted">>[level]
  ELSE "intimate"

\* C3: in part_003 and part_000 currentAffection stays within [-10, 15] over
\* beforePrompt, afterResponse and setState of returned messageStates.
C3_AffectionInRange ==
  variant \in {"part_003", "part_000"}
    => myInternalState.currentAffection \in -10..15

\* C4: in Stage.tsx and part_001 every beforePrompt leaves currentScore at
\* min(max, max(0, previous score + scoreChange)), max being 50 and 100, and
\* the score is within [0, max] in every state.
C4_ScoreClamped ==
  /\ [](variant \in {"Stage", "part_001"}
          => myInternalState.currentScore \in 0..(IF variant = "Stage" THEN 50 ELSE 100))
  /\ [][(variant \in {"Stage", "part_001"} /\ lastOp'.name = "beforePrompt")
          => LET top == IF variant = "Stage" THEN 50 ELSE 100
                 sum == myInternalState.currentScore + response'.messageState.lastChange
             IN  myInternalState'.currentScore =
                   (IF sum > top THEN top ELSE IF sum < 0 THEN 0 ELSE sum)]_vars

\* C4's case: a beforePrompt of Stage.tsx whose sum (4 x 15) passed 50
C4_Witness ==
  /\ variant = "Stage"
  /\ lastOp.name = "beforePrompt"
  /\ myInternalState.currentScore = 50
  /\ Len(myInternalState.interactionHistory) = 4
  /\ \A i \in 1..4 : myInternalState.interactionHistory[i].scoreChange = 15

C6_LevelMatchesXP ==
  variant = "part_001"
    => myInternalState.currentLevel =
         GreatestLevel(LEVEL_THRESHOLDS_001, myInternalState.totalXP)

\* the fields a messageState of Stage.tsx persists
Snapshot(m) ==
  <<m.currentLevel, m.currentState, m.isNSFWUnlocked, m.totalXP, m.currentScore>>

\* C7: in Stage.tsx a returned messageState holds the state as it is right
\* after the call, and setState of a returned messageState yields exactly
\* that currentLevel, currentState, isNSFWUnlocked, totalXP and currentScore.
C7_RestoreRoundTrip ==
  variant = "Stage"
    => /\ lastOp.name \in {"beforePrompt", "afterResponse"}
            => Snapshot(response.messageState) = Snapshot(myInternalState)
       /\ (lastOp.name = "setState" /\ lastOp.state # null)
            => Snapshot(myInternalState) = Snapshot(lastOp.state)

\* C7's case: setState of the latest returned messageState, past level 1
C7_Witness ==
  /\ variant = "Stage"
  /\ lastOp.name = "setState"
  /\ lastOp.state = response.messageState
  /\ lastOp.state # null
  /\ myInternalState.currentLevel >= 2
  /\ myInternalState.currentScore > 0

\* C8: setState of a non-null messageState with fields missing repairs each
\* with its default: currentLevel an integer >= 1 (1 when no level is
\* supplied), currentState the tier of that level, totalXP and currentScore
\* 0 and isNSFWUnlocked false when not supplied.
C8_RestoreRepairsDefaults ==
  (variant = "Stage" /\ lastOp.name = "setState" /\ lastOp.state # null)
    => LET m == lastOp.state
           supplied(f) == f \in DOMAIN m
       IN  /\ myInternalState.currentLevel >= 1
           /\ (~supplied("currentLevel") /\ ~supplied("previousLevel"))
                => myInternalState.currentLevel = 1
           /\ myInternalState.currentState = TierOfLevel(myInternalState.currentLevel)
           /\ ~supplied("totalXP") => myInternalState.totalXP = 0
           /\ ~supplied("currentScore") => myInternalState.currentScore = 0
           /\ ~supplied("isNSFWUnlocked") => myInternalState.isNSFWUnlocked = FALSE

\* C9: for each of the three threshold tables calculateLevel(xp) is the
\* greatest level whose xpRequired is at most xp (23 from the last threshold
\* on), it does not decrease from xp to xp + 1, and it is 1 at xp = 0.
C9_CalculateLevelIsGreatest ==
  (call.fn = "calculateLevel" /\ "results" \in DOMAIN call)
    => LET table == ThresholdsOf(call.file)
           xp == call.totalXP
       IN  /\ call.results[1] = GreatestLevel(table, xp)
           /\ call.results[2] = GreatestLevel(table, xp + 1)
           /\ call.results[1] <= call.results[2]
           /\ xp = 0 => call.results[1] = 1
           /\ xp >= table[Len(table)].xpRequired => call.results[1] = 23

\* C9's case: one below the last threshold of part_002, and the threshold
C9_Witness ==
  /\ call.fn = "calculateLevel"
  /\ call.file = "part_002"
  /\ call.totalXP = 3249
  /\ "results" \in DOMAIN call
  /\ call.results = <<22, 23>>

\* C10: in part_001 every score s of [0, 100] lies in exactly one band of
\* RELATIONSHIP_STATES, getCurrentRelationshipState(s) is the name of that
\* band, and at the maxScore of every band but the last the result differs
\* from the result at maxScore + 1.
C10_ExactlyOneBand ==
  (call.fn = "getCurrentRelationshipState" /\ "results" \in DOMAIN call)
    => LET table == RELATIONSHIP_STATES
           s == call.score
           bands == {i \in 1..Len(table) : table[i].minScore <= s /\ s <= table[i].maxScore}
       IN  /\ Cardinality(bands) = 1
           /\ \A i \in bands :
                /\ call.results[1] = table[i].name
                /\ (i < Len(table) /\ s = table[i].maxScore)
                     => call.results[1] # call.results[2]

\* C10's case: the top of the neutral band and the score above it
C10_Witness ==
  /\ call.fn = "getCurrentRelationshipState"
  /\ call.score = 35
  /\ "results" \in DOMAIN call
  /\ call.results = <<"neutral", "interested">>

\* C11: in part_001 currentState is the name of the band of
\* RELATIONSHIP_STATES that holds currentScore, in every state reached by
\* beforePrompt, afterResponse and setState of returned messageStates.
C11_TierMatchesScore ==
  variant = "part_001"
    => \E i \in 1..Len(RELATIONSHIP_STATES) :
         /\ RELATIONSHIP_STATES[i].name = myInternalState.currentState
         /\ RELATIONSHIP_STATES[i].minScore <= myInternalState.currentScore
         /\ myInternalState.currentScore <= RELATIONSHIP_STATES[i].maxScore

\* C11's case: a restore that takes the session back across a band boundary
C11_Witness ==
  /\ variant = "part_001"
  /\ lastOp.name = "setState"
  /\ lastOp.state # null
  /\ lastOp.state.previousState = "zero"
  /\ myInternalState.currentState = "zero"
  /\ response.messageState.previousState = "neutral"

\* C12: in Stage.tsx one beforePrompt raises currentLevel by 0 or by exactly 1.
C12_LevelStepsByOne ==
  [][(variant = "Stage" /\ lastOp'.name = "beforePrompt")
       => myInternalState'.currentLevel - myInternalState.currentLevel \in {0, 1}]_vars

\* C12's case: the greatest gain (44 XP) taking level 4 to level 5
C12_Witness ==
  /\ variant = "Stage"
  /\ lastOp.name = "beforePrompt"
  /\ response.messageState.lastChange = 22
  /\ response.messageState.previousLevel = 4
  /\ myInternalState.currentLevel = 5

RECURSIVE SumPositive(_)
\* the sum of the positive scoreChange of the records of a history
SumPositive(history) ==
  IF history = << >> THEN 0
  ELSE (IF history[1].scoreChange > 0 THEN history[1].scoreChange ELSE 0)
         + SumPositive(Tail(history))

\* C13: in Stage.tsx and part_001 each beforePrompt adds 2 * scoreChange to
\* totalXP when scoreChange > 0 and 0 otherwise; totalXP is >= 0, never
\* decreases, and from the default state is twice the sum of the positive
\* deltas of the turns so far (all of them still in the history).
C13_XPFromPositiveDeltas ==
  /\ [](variant \in {"Stage", "part_001"}
          => /\ myInternalState.totalXP >= 0
             /\ turns <= 10 =>
                  myInternalState.totalXP = 2 * SumPositive(myInternalState.interactionHistory))
  /\ [][(variant \in {"Stage", "part_001"} /\ lastOp'.name = "beforePrompt")
          => LET delta == response'.messageState.lastChange
             IN  /\ myInternalState'.totalXP >= myInternalState.totalXP
                 /\ delta > 0 => myInternalState'.totalXP = myInternalState.totalXP + 2 * delta
                 /\ delta <= 0 => myInternalState'.totalXP = myInternalState.totalXP]_vars

\* C13's case: an insult after compliments, the XP kept
C13_Witness ==
  /\ variant = "part_001"
  /\ lastOp.name = "beforePrompt"
  /\ response.messageState.lastChange < 0
  /\ myInternalState.totalXP = 40
  /\ Len(myInternalState.interactionHistory) = 3

\* the rules of Stage.tsx as they are listed for each tier: the keywords a
\* message must hold all of (needs) and one of (any), the range of the delta
\* and the category
RuleList(tier) ==
  CASE tier = "zero" ->
      <<[needs |-> {}, any |-> {<<"h","i">>, <<"h","e","l","l","o">>, <<"h","o","w"," ","a","r","e"," ","y","o","u">>},
          least |-> 2, greatest |-> 2, category |-> "positive"],
         [needs |-> {}, any |-> {<<"c","r","e","a","t","i","v","e">>, <<"c","u","r","i","o","u","s">>},
          least |-> 5, greatest |-> 10, category |-> "positive"],
         [needs |-> {<<"y","o","u","r">>}, any |-> {<<"o","p","i","n","i","o","n">>, <<"t","h","i","n","k">>, <<"f","e","e","l">>},
          least |-> 2, greatest |-> 5, category |-> "positive"],
         [needs |-> {}, any |-> {<<"i"," ","f","e","e","l">>, <<"i"," ","t","h","i","n","k">>, <<"m","y">>, <<"i"," ","a","m">>, <<"i","'","m">>},
          least |-> 2, greatest |-> 5, category |-> "positive"],
         [needs |-> {}, any |-> {<<"l","o","v","e">>, <<"b","e","a","u","t","i","f","u","l">>, <<"p","r","e","t","t","y">>, <<"p","e","r","f","e","c","t">>, <<"a","m","a","z","i","n","g">>, <<"w","o","n","d","e","r","f","u","l">>},
          least |-> 8, greatest |-> 15, category |-> "positive"],
         [needs |-> {}, any |-> {<<"s","t","u","p","i","d">>, <<"i","d","i","o","t">>, <<"h","a","t","e">>, <<"a","n","n","o","y","i","n","g">>},
          least |-> -8, greatest |-> -3, category |-> "negative"],
         [needs |-> {}, any |-> {<<"s","e","x">>, <<"n","a","k","e","d">>, <<"n","s","f","w">>, <<"f","u","c","k">>, <<"s","e","x","u","a","l">>},
          least |-> -10, greatest |-> -5, category |-> "negative"] >>
    [] tier = "neutral" ->
      <<[needs |-> {}, any |-> {<<"h","i">>, <<"h","e","l","l","o">>, <<"h","o","w"," ","a","r","e"," ","y","o","u">>},
          least |-> 2, greatest |-> 2, category |-> "positive"],
         [needs |-> {}, any |-> {<<"c","r","e","a","t","i","v","e">>, <<"c","u","r","i","o","u","s">>},
          least |-> 5, greatest |-> 10, category |-> "positive"],
         [needs |-> {<<"y","o","u","r">>}, any |-> {<<"o","p","i","n","i","o","n">>, <<"t","h","i","n","k">>, <<"f","e","e","l">>},
          least |-> 2, greatest |-> 5, category |-> "positive"],
         [needs |-> {}, any |-> {<<"i"," ","f","e","e","l">>, <<"i"," ","t","h","i","n","k">>, <<"m","y">>, <<"i"," ","a","m">>, <<"i","'","m">>},
          least |-> 2, greatest |-> 5, category |-> "positive"],
         [needs |-> {}, any |-> {<<"l","o","v","e">>, <<"b","e","a","u","t","i","f","u","l">>, <<"p","r","e","t","t","y">>, <<"p","e","r","f","e","c","t">>, <<"a","m","a","z","i","n","g">>, <<"w","o","n","d","e","r","f","u","l">>},
          least |-> 8, greatest |-> 15, category |-> "positive"],
         [needs |-> {}, any |-> {<<"s","t","u","p","i","d">>, <<"i","d","i","o","t">>, <<"h","a","t","e">>, <<"a","n","n","o","y","i","n","g">>},
          least |-> -8, greatest |-> -3, category |-> "negative"],
         [needs |-> {}, any |-> {<<"s","e","x">>, <<"n","a","k","e","d">>, <<"n","s","f","w">>, <<"f","u","c","k">>, <<"s","e","x","u","a","l">>},
          least |-> -10, greatest |-> -5, category |-> "negative"] >>
    [] tier = "interested" ->
      <<[needs |-> {}, any |-> {<<"c","r","e","a","t","i","v","e">>, <<"c","u","r","i","o","u","s">>},
          least |-> 6, greatest |-> 11, category |-> "positive"],
         [needs |-> {<<"y","o","u","r">>}, any |-> {<<"o","p","i","n","i","o","n">>, <<"t","h","i","n","k">>, <<"f","e","e","l">>},
          least |-> 3, greatest |-> 6, category |-> "positive"],
         [needs |-> {}, any |-> {<<"f","u","n","n","y">>, <<"h","u","m","o","r","o","u","s">>, <<"j","o","k","e">>},
          least |-> 3, greatest |-> 6, category |-> "positive"],
         [needs |-> {}, any |-> {<<"l","o","v","e">>, <<"b","e","a","u","t","i","f","u","l">>, <<"p","l","a","y","f","u","l">>, <<"p","e","r","f","e","c","t">>, <<"a","m","a","z","i","n","g">>, <<"w","o","n","d","e","r","f","u","l">>},
          least |-> 8, greatest |-> 15, category |-> "positive"],
         [needs |-> {}, any |-> {<<"i"," ","f","e","e","l">>, <<"i"," ","t","h","i","n","k">>, <<"m","y">>, <<"i"," ","a","m">>, <<"i","'","m">>},
          least |-> 3, greatest |-> 6, category |-> "positive"],
         [needs |-> {}, any |-> {<<"s","t","u","p","i","d">>, <<"i","d","i","o","t">>, <<"h","a","t","e">>, <<"a","n","n","o","y","i","n","g">>},
          least |-> -9, greatest |-> -4, category |-> "negative"],
         [needs |-> {}, any |-> {<<"s","e","x">>, <<"n","a","k","e","d">>, <<"n","s","f","w">>, <<"f","u","c","k">>, <<"s","e","x","u","a","l">>},
          least |-> -13, greatest |-> -8, category |-> "negative"] >>
    [] tier = "attracted" ->
      <<[needs |-> {}, any |-> {<<"c","r","e","a","t","i","v","e">>, <<"c","u","r","i","o","u","s">>},
          least |-> 8, greatest |-> 13, category |-> "positive"],
         [needs |-> {<<"y","o","u","r">>}, any |-> {<<"o","p","i","n","i","o","n">>, <<"t","h","i","n","k">>, <<"f","e","e","l">>},
          least |-> 4, greatest |-> 13, category |-> "positive"],
         [needs |-> {}, any |-> {<<"f","u","n","n","y">>, <<"h","u","m","o","r","o","u","s">>, <<"j","o","k","e">>},
          least |-> 4, greatest |-> 13, category |-> "positive"],
         [needs |-> {}, any |-> {<<"l","o","v","e">>, <<"b","e","a","u","t","i","f","u","l">>, <<"p","r","e","t","t","y">>, <<"p","e","r","f","e","c","t">>, <<"a","m","a","z","i","n","g">>, <<"w","o","n","d","e","r","f","u","l">>},
          least |-> 12, greatest |-> 22, category |-> "positive"],
         [needs |-> {}, any |-> {<<"i"," ","f","e","e","l">>, <<"i"," ","t","h","i","n","k">>, <<"m","y">>, <<"i"," ","a","m">>, <<"i","'","m">>},
          least |-> 4, greatest |-> 13, category |-> "positive"],
         [needs |-> {}, any |-> {<<"s","t","u","p","i","d">>, <<"i","d","i","o","t">>, <<"h","a","t","e">>, <<"a","n","n","o","y","i","n","g">>},
          least |-> -10, greatest |-> -5, category |-> "negative"],
         [needs |-> {}, any |-> {<<"s","e","x">>, <<"n","a","k","e","d">>, <<"n","s","f","w">>, <<"f","u","c","k">>, <<"s","e","x","u","a","l">>},
          least |-> -15, greatest |-> -10, category |-> "negative"] >>
    [] tier = "intimate" ->
      <<[needs |-> {}, any |-> {<<"c","r","e","a","t","i","v","e">>, <<"c","u","r","i","o","u","s">>},
          least |-> 4, greatest |-> 13, category |-> "positive"],
         [needs |-> {<<"y","o","u","r">>}, any |-> {<<"o","p","i","n","i","o","n">>, <<"t","h","i","n","k">>, <<"f","e","e","l">>},
          least |-> 3, greatest |-> 12, category |-> "positive"],
         [needs |-> {}, any |-> {<<"f","u","n","n","y">>, <<"h","u","m","o","r","o","u","s">>, <<"j","o","k","e">>},
          least |-> 3, greatest |-> 12, category |-> "positive"],
         [needs |-> {}, any |-> {<<"s","e","x">>, <<"s","e","x","u","a","l">>, <<"i","n","t","i","m","a","t","e">>},
          least |-> 8, greatest |-> 14, category |-> "positive"],
         [needs |-> {}, any |-> {<<"l","o","v","e">>, <<"b","e","a","u","t","i","f","u","l">>, <<"p","r","e","t","t","y">>, <<"p","e","r","f","e","c","t">>, <<"a","m","a","z","i","n","g">>, <<"w","o","n","d","e","r","f","u","l">>},
          least |-> 3, greatest |-> 12, category |-> "positive"],
         [needs |-> {}, any |-> {<<"i"," ","f","e","e","l">>, <<"i"," ","t","h","i","n","k">>, <<"m","y">>, <<"i"," ","a","m">>, <<"i","'","m">>},
          least |-> 2, greatest |-> 11, category |-> "positive"],
         [needs |-> {}, any |-> {<<"s","t","u","p","i","d">>, <<"i","d","i","o","t">>, <<"h","a","t","e">>, <<"a","n","n","o","y","i","n","g">>},
          least |-> -7, greatest |-> -3, category |-> "negative"],
         [needs |-> {}, any |-> {<<"a","s","s","h","o","l","e">>, <<"j","e","r","k">>},
          least |-> -9, greatest |-> -5, category |-> "negative"] >>

\* the rules of a tier a lowercased message meets
RulesMet(tier, message) ==
  {i \in 1..Len(RuleList(tier)) :
     /\ \A k \in RuleList(tier)[i].needs : includes(message, k)
     /\ \E k \in RuleList(tier)[i].any : includes(message, k)}

\* whether a content meets no rule of a tier of Stage.tsx (RulesMet, tabulated once)
NoRuleMet == [t \in Tiers, c \in DOMAIN Chars |-> RulesMet(t, toLowerCase(Chars[c])) = {}]

\* the range and category of the first rule a content meets in a tier of
\* Stage.tsx, 0 and 'neutral' when it meets none (tabulated once)
FirstRuleMet ==
  [t \in Tiers, c \in DOMAIN Chars |->
     LET met == RulesMet(t, toLowerCase(Chars[c]))
     IN  IF met = {}
           THEN [least |-> 0, greatest |-> 0, category |-> "neutral"]
           ELSE LET first == RuleList(t)[CHOOSE i \in met : \A j \in met : i <= j]
                IN  [least |-> first.least, greatest |-> first.greatest,
                     category |-> first.category]]

\* C14: in Stage.tsx, when currentScore + scoreChange leaves [0, 50] for
\* every delta of the rule the message meets, the score is clamped, yet
\* messageState.lastChange and the appended history record carry a delta of
\* that rule, not the change of the clamped score, and totalXP grows by
\* 2 * scoreChange for a positive scoreChange.
C14_RawDeltaRecorded ==
  [][(variant = "Stage" /\ lastOp'.name = "beforePrompt")
       => LET rule == FirstRuleMet[myInternalState.currentState, lastOp'.content]
              delta == response'.messageState.lastChange
              history == myInternalState'.interactionHistory
              over == myInternalState.currentScore + rule.least > 50
              under == myInternalState.currentScore + rule.greatest < 0
          IN  (over \/ under)
                => /\ myInternalState'.currentScore = (IF over THEN 50 ELSE 0)
                   /\ delta \in rule.least..rule.greatest
                   /\ history[Len(history)].scoreChange = delta
                   /\ myInternalState'.totalXP =
                        myInternalState.totalXP + (IF delta > 0 THEN 2 * delta ELSE 0)]_vars

\* C14's case: 45 + 15 clamped to 50, the fourth record and the XP at full value
C14_Witness ==
  /\ variant = "Stage"
  /\ lastOp.name = "beforePrompt"
  /\ myInternalState.currentScore = 50
  /\ myInternalState.totalXP = 120
  /\ response.messageState.lastChange = 15
  /\ Len(myInternalState.interactionHistory) = 4
  /\ myInternalState.interactionHistory[4].scoreChange = 15

RECURSIVE SumChanges(_)
\* the sum of the scoreChange of the records of a history
SumChanges(history) ==
  IF history = << >> THEN 0
  ELSE history[1].scoreChange + SumChanges(Tail(history))

C16_HistoryBounded ==
  Len(myInternalState.interactionHistory) <= 10

\* C16's case: the eleventh turn of part_002, the history full
C16_Witness ==
  /\ variant = "part_002"
  /\ turns = 11
  /\ Len(myInternalState.interactionHistory) = 10

\* C17: after each beforePrompt interactionHistory is the last 10 elements of
\* the history before the call followed by the new record, in that order,
\* identical records kept.
C17_HistoryFIFO ==
  [][lastOp'.name = "beforePrompt"
       => LET before == myInternalState.interactionHistory
              after == myInternalState'.interactionHistory
              all == before \o << after[Len(after)] >>
              drop == IF Len(all) > 10 THEN Len(all) - 10 ELSE 0
          IN  /\ Len(after) = Len(all) - drop
              /\ \A i \in 1..Len(after) : after[i] = all[i + drop]]_vars

\* C17's case: Stage.tsx past capacity, the first turn evicted, equal records kept
C17_Witness ==
  /\ variant = "Stage"
  /\ lastOp.name = "beforePrompt"
  /\ turns = 11
  /\ Len(myInternalState.interactionHistory) = 10
  /\ myInternalState.interactionHistory[1].message = "I love you"
  /\ \A i \in 2..10 : myInternalState.interactionHistory[i] = [message |-> "ok", scoreChange |-> 0]
  /\ myInternalState.totalXP = 60

\* C18: every beforePrompt appends exactly one record, also when the delta is
\* 0; its message is the content of the call and its scoreChange the delta
\* of the turn.
C18_OneRecordPerTurn ==
  [][lastOp'.name = "beforePrompt"
       => LET before == myInternalState.interactionHistory
              after == myInternalState'.interactionHistory
          IN  /\ Len(before) < 10 => Len(after) = Len(before) + 1
              /\ Len(before) = 10 => Len(after) = 10 /\ after[9] = before[10]
              /\ after # << >>
              /\ after[Len(after)].message = lastOp'.content
              /\ after[Len(after)].scoreChange = response'.messageState.lastChange]_vars

\* C18's case: a turn of part_001 that matches no rule, recorded with delta 0
C18_Witness ==
  /\ variant = "part_001"
  /\ lastOp.name = "beforePrompt"
  /\ lastOp.content = "ok"
  /\ response.messageState.lastChange = 0
  /\ Len(myInternalState.interactionHistory) = 2
  /\ myInternalState.interactionHistory[2] = [message |-> "ok", scoreChange |-> 0]

\* C19: in Stage.tsx the delta range and the category of a message are those
\* of the first rule, in the listed order of the tier, that the lowercased
\* message meets; in 'zero' and 'neutral' a message holding 'hi', 'hello' or
\* 'how are you' is positive with scoreChange exactly 2 whatever else it holds.
C19_FirstMatchWins ==
  (call.fn = "classify" /\ "result" \in DOMAIN call)
    => LET tier == call.previousState
           message == toLowerCase(ClassifyChars[call.content])
           met == RulesMet(tier, message)
       IN  /\ (/\ tier \in {"zero", "neutral"}
                /\ \E k \in {<<"h","i">>, <<"h","e","l","l","o">>,
                              <<"h","o","w"," ","a","r","e"," ","y","o","u">>} :
                      includes(message, k))
                => call.result = [scoreChange |-> 2, interactionType |-> "positive"]
           /\ met # {}
                => LET first == RuleList(tier)[CHOOSE i \in met : \A j \in met : i <= j]
                   IN  /\ call.result.interactionType = first.category
                       /\ call.result.scoreChange \in first.least..first.greatest

\* C19's case: 'This is NSFW' holds 'hi' and an explicit keyword; in 'zero'
\* it is a greeting
C19_Witness ==
  /\ call.fn = "classify"
  /\ call.previousState = "zero"
  /\ call.content = "This is NSFW"
  /\ "result" \in DOMAIN call
  /\ call.result = [scoreChange |-> 2, interactionType |-> "positive"]
  /\ Cardinality(RulesMet("zero", toLowerCase(ClassifyChars[call.content]))) = 2

\* C20: in Stage.tsx, in every state reached by beforePrompt, afterResponse
\* and setState of returned messageStates, a message that meets no rule of
\* the current tier yields scoreChange 0 and lastInteractionType 'neutral',
\* leaves currentScore, totalXP, currentLevel, currentState and
\* isNSFWUnlocked as they were, and returns systemMessage null.
C20_NoMatchChangesNothing ==
  [][(/\ variant = "Stage"
      /\ lastOp'.name = "beforePrompt"
      /\ NoRuleMet[myInternalState.currentState, lastOp'.content])
       => /\ response'.messageState.lastChange = 0
          /\ response'.messageState.lastInteractionType = "neutral"
          /\ Snapshot(myInternalState') = Snapshot(myInternalState)
          /\ response'.systemMessage = << >>]_vars

\* C20's case: 'ok' after compliments and a restore
C20_Witness ==
  /\ variant = "Stage"
  /\ lastOp = [name |-> "beforePrompt", content |-> "ok"]
  /\ restores = 1
  /\ turns = 3
  /\ myInternalState.totalXP = 30
  /\ response.messageState.lastChange = 0
  /\ response.systemMessage = << >>


(* C21: in Stage.tsx the deltas of a rule scale with the tier: along zero, *)
(* neutral, interested, attracted, intimate, the least and the greatest    *)
(* delta of the creative/curious rule and of the compliment rule never     *)
(* decrease from a tier to the next, and neither do the least and the      *)
(* greatest magnitude of the penalty of the insult rule.  A message that   *)
(* meets only the creative rule, one that meets only the compliment rule   *)
(* and one that meets only the insult rule are classified in every tier.   *)
TierOrder == <<"zero", "neutral", "interested", "attracted", "intimate">>

ScalingContents == {"I'm curious", "you are wonderful", "so annoying"}

C21_DeltasScaleWithTier ==
  (call.fn = "classifyTiers" /\ "results" \in DOMAIN call /\ call.content \in ScalingContents) =>
    \A i \in 1..(Len(TierOrder) - 1) :
      LET lower == call.results[TierOrder[i]]
          upper == call.results[TierOrder[i + 1]]
      IN  /\ Abs(lower.leastDraw) <= Abs(upper.leastDraw)
          /\ Abs(lower.greatestDraw) <= Abs(upper.greatestDraw)

(* C22: in Stage.tsx beforePrompt returns the systemMessage null exactly   *)
(* when scoreChange is 0, the tier is unchanged and the level did not      *)
(* increase; otherwise the message holds the affection sentence exactly    *)
(* when scoreChange is not 0, 'RELATIONSHIP STATE CHANGED' exactly when    *)
(* the new state differs from the previous one and 'LEVEL UP' exactly when *)
(* the new level is greater than the previous one.                         *)
HasSentence(systemMessage, sentence) ==
  \E i \in 1..Len(systemMessage) : systemMessage[i].sentence = sentence

C22_SystemMessageComposition ==
  [][(variant = "Stage" /\ lastOp'.name = "beforePrompt" /\ turns' = turns + 1) =>
       LET systemMessage == response'.systemMessage
           scoreChange == response'.messageState.lastChange
           stateChanged == myInternalState'.currentState # myInternalState.currentState
           levelRose == myInternalState'.currentLevel > myInternalState.currentLevel
       IN  /\ (systemMessage = << >>) <=> (scoreChange = 0 /\ ~stateChanged /\ ~levelRose)
           /\ HasSentence(systemMessage, "Ani's affection changed") <=> (scoreChange # 0)
           /\ HasSentence(systemMessage, "RELATIONSHIP STATE CHANGED!") <=> stateChanged
           /\ HasSentence(systemMessage, "LEVEL UP!") <=> levelRose]_vars

\* a turn that changed the score, the tier and the level
C22_Witness ==
  /\ variant = "Stage"
  /\ lastOp.name = "beforePrompt"
  /\ response.messageState.lastChange # 0
  /\ response.messageState.currentState # response.messageState.previousState
  /\ response.messageState.currentLevel > response.messageState.previousLevel
  /\ HasSentence(response.systemMessage, "Ani's affection changed")
  /\ HasSentence(response.systemMessage, "RELATIONSHIP STATE CHANGED!")
  /\ HasSentence(response.systemMessage, "LEVEL UP!")

(* C23: in Stage.tsx and part_001 the category and the delta of a turn     *)
(* depend only on the lowercased text and on previousState.  Two calls of  *)
(* beforePrompt with the same text and the same draw, made in states of    *)
(* the same previousState that differ in score, XP, level, flag or         *)
(* history, return the same lastInteractionType and the same lastChange.   *)
(* The calls compared are the turns of a session that sends one text on    *)
(* every turn, whose messageStates are all in returned.                    *)
SameTextSession ==
  /\ variant \in {"Stage", "part_001"}
  /\ afters = 0
  /\ Len(myInternalState.interactionHistory) = turns
  /\ \A i, j \in 1..Len(myInternalState.interactionHistory) :
       myInternalState.interactionHistory[i].message =
         myInternalState.interactionHistory[j].message

C23_ClassificationIgnoresProgress ==
  SameTextSession =>
    \A m1, m2 \in returned :
      m1.previousState = m2.previousState =>
        /\ m1.lastInteractionType = m2.lastInteractionType
        /\ m1.lastChange = m2.lastChange

\* two turns of Stage.tsx in the same tier whose states differ in score and XP
C23_Witness ==
  /\ variant = "Stage"
  /\ SameTextSession
  /\ \E m1, m2 \in returned :
       /\ m1.previousState = m2.previousState
       /\ m1.lastChange # 0
       /\ m1.lastChange = m2.lastChange
       /\ m1.currentScore # m2.currentScore
       /\ m1.totalXP # m2.totalXP

(* C24: from the default state (score 0, tier 'zero', level 1, no XP) a    *)
(* beforePrompt with the text 'hello' yields delta 2 in Stage.tsx and 1 in *)
(* part_001, leaves the tier 'zero' and the level 1, and returns a         *)
(* systemMessage that reports the affection gain and nothing else: no      *)
(* tier change, no level up, no unlock.                                    *)
AtDefault ==
  /\ myInternalState.currentScore = 0
  /\ myInternalState.currentState = "zero"
  /\ myInternalState.currentLevel = 1
  /\ myInternalState.totalXP = 0
  /\ ~myInternalState.isNSFWUnlocked

C24_HelloFromDefault ==
  [][(/\ variant \in {"Stage", "part_001"}
      /\ AtDefault
      /\ lastOp'.name = "beforePrompt"
      /\ lastOp'.content = "hello")
       => /\ response'.messageState.lastChange = (IF variant = "Stage" THEN 2 ELSE 1)
          /\ myInternalState'.currentScore = response'.messageState.lastChange
          /\ myInternalState'.currentState = "zero"
          /\ myInternalState'.currentLevel = 1
          /\ Len(response'.systemMessage) = 1
          /\ response'.systemMessage[1].sentence = "Ani's affection changed"
          /\ response'.systemMessage[1].direction = "increased"
          /\ response'.systemMessage[1].by = response'.messageState.lastChange]_vars

\* part_001 greeted on its first turn
C24_Witness ==
  /\ variant = "part_001"
  /\ turns = 1
  /\ restores = 0
  /\ lastOp = [name |-> "beforePrompt", content |-> "hello"]
  /\ response.messageState.lastChange = 1
  /\ myInternalState.currentState = "zero"
  /\ myInternalState.currentLevel = 1
  /\ Len(response.systemMessage) = 1

(* C25: the clamp is idempotent: clamping an already clamped score with    *)
(* delta 0 gives it back, clamp(clamp(s, d), 0) = clamp(s, d), for every   *)
(* score s and delta d, in the ranges [0, 50] of Stage.tsx, [0, 100] of    *)
(* part_001 and [-10, 15] of part_003.                                     *)
C25_ClampIdempotent ==
  (call.fn = "clamp" /\ "results" \in DOMAIN call) =>
    call.results[2] = call.results[1]

\* a score above the range of Stage.tsx, clamped to 50 and clamped again
C25_Witness ==
  /\ call.fn = "clamp"
  /\ "results" \in DOMAIN call
  /\ call.file = "Stage"
  /\ call.score = 60
  /\ call.scoreChange = 5
  /\ call.results = << 50, 50 >>

(* C26: in part_002, once isNSFWUnlocked is true it stays true in every    *)
(* later state reached by beforePrompt, afterResponse and setState, also   *)
(* when totalXP has dropped so that currentLevel is below 5; and totalXP   *)
(* is at least 0 in every reachable state.                                 *)
C26_UnlockStaysAndXPNonNegative ==
  /\ [](variant = "part_002" => myInternalState.totalXP >= 0)
  /\ [][(variant = "part_002" /\ myInternalState.isNSFWUnlocked)
          => myInternalState'.isNSFWUnlocked]_vars

\* the flag still set after an insult took the level back to 4 and a restore
\* put back the XP and level of before the unlock
C26_Witness ==
  /\ variant = "part_002"
  /\ myInternalState.isNSFWUnlocked
  /\ myInternalState.currentLevel = 4
  /\ myInternalState.totalXP = 240
  /\ lastOp.name = "setState"
  /\ turns >= 2

(* C27: in Stage.tsx currentState is getStateForLevel(currentLevel), the   *)
(* tier of the level, after every load(), every setState with a non-null   *)
(* argument and every beforePrompt, whatever tier name the restored        *)
(* initState or messageState carried.                                      *)
C27_StateNamedAfterLevel ==
  [][(/\ variant = "Stage"
      /\ \/ lastOp'.name = "load"
         \/ lastOp'.name = "beforePrompt"
         \/ lastOp'.name = "setState" /\ lastOp'.state # null)
       => myInternalState'.currentState = TierOfLevel(myInternalState'.currentLevel)]_vars

\* load() on a messageState that names level 3 'zero'
C27_Witness ==
  /\ variant = "Stage"
  /\ lastOp.name = "load"
  /\ initialData.messageState # null
  /\ initialData.messageState.currentLevel = 3
  /\ initialData.messageState.currentState = "zero"
  /\ myInternalState.currentLevel = 3
  /\ myInternalState.currentState = "interested"

(* C28: in load() of Stage.tsx the persisted values of a messageState take *)
(* precedence over those of initState: after load, currentLevel, totalXP,  *)
(* currentScore and isNSFWUnlocked equal the values of the messageState,   *)
(* also when its totalXP or currentScore is 0 or its isNSFWUnlocked is     *)
(* false while initState holds a non-zero or true value.                   *)
C28_MessageStateTakesPrecedence ==
  (variant = "Stage" /\ lastOp.name = "load" /\ initialData.messageState # null) =>
    /\ myInternalState.currentLevel = initialData.messageState.currentLevel
    /\ myInternalState.totalXP = initialData.messageState.totalXP
    /\ myInternalState.currentScore = initialData.messageState.currentScore
    /\ myInternalState.isNSFWUnlocked = initialData.messageState.isNSFWUnlocked

(* C29: in part_001, over every interleaving of beforePrompt,              *)
(* afterResponse and setState of a messageState returned earlier, 'LEVEL   *)
(* UP' appears only on a turn whose scoreChange is greater than 0, and a   *)
(* turn whose scoreChange is 0 returns the systemMessage null.             *)
C29_LevelUpOnlyOnGain ==
  [][(variant = "part_001" /\ lastOp'.name = "beforePrompt") =>
       /\ HasSentence(response'.systemMessage, "LEVEL UP!")
            => response'.messageState.lastChange > 0
       /\ response'.messageState.lastChange = 0
            => response'.systemMessage = << >>]_vars

(* C30: in part_000, once currentAffection is 15 after a beforePrompt,     *)
(* every later beforePrompt with no setState in between leaves it at       *)
(* exactly 15, and a message whose first matching rule is the insult rule  *)
(* ('you idiot') then yields scoreChange 0 with lastInteractionType        *)
(* 'neutral'.  A beforePrompt or afterResponse taken at 15 ends at 15, so  *)
(* the score stays there for as long as no setState runs.                  *)
C30_LockedAtMaximum ==
  [][(/\ variant = "part_000"
      /\ myInternalState.currentAffection = 15
      /\ lastOp'.name \in {"beforePrompt", "afterResponse"})
       => /\ myInternalState'.currentAffection = 15
          /\ (lastOp'.name = "beforePrompt" /\ lastOp'.content = "you idiot")
               => /\ response'.messageState.lastChange = 0
                  /\ response'.messageState.lastInteractionType = "neutral"]_vars

\* an insult on the second turn after the score reached 15
C30_Witness ==
  /\ variant = "part_000"
  /\ restores = 0
  /\ turns >= 4
  /\ lastOp = [name |-> "beforePrompt", content |-> "you idiot"]
  /\ response.messageState.previousAffection = 15
  /\ response.messageState.lastChange = 0
  /\ myInternalState.currentAffection = 15
  /\ myInternalState.isMaxAffectionUnlocked
  /\ Len(myInternalState.interactionHistory) >= 4
  /\ myInternalState.interactionHistory[Len(myInternalState.interactionHistory) - 1].message
       = "you idiot"

(* C31: in part_002 the gated rules read isNSFWUnlocked as it is at the    *)
(* start of the turn.  A message whose first matching rule is the explicit *)
(* rule ('get naked') gets an xpChange in [-10, -5] only while the flag is *)
(* false and 0 / 'neutral' once it is true.  A message whose first         *)
(* matching rule is the romantic rule ('kiss me', 'hug me, idiot') gets an *)
(* xpChange in [12, 15] only when the flag is already true.                *)
ExplicitFirst == {"get naked"}

RomanticFirst == {"kiss me", "hug me, idiot"}

\* as claimed: with the flag false the romantic message gets 0
C31_GatedRulesOrZero ==
  [][(variant = "part_002" /\ lastOp'.name = "beforePrompt") =>
       LET unlocked == myInternalState.isNSFWUnlocked
           xpChange == response'.messageState.lastChange
           type == response'.messageState.lastInteractionType
       IN  /\ lastOp'.content \in ExplicitFirst =>
                IF unlocked THEN xpChange = 0 /\ type = "neutral"
                            ELSE xpChange \in (-10)..(-5) /\ type = "negative"
           /\ lastOp'.content \in RomanticFirst =>
                IF unlocked THEN xpChange \in 12..15 /\ type = "positive"
                            ELSE xpChange = 0]_vars

\* as the code has it: with the flag false the romantic rule is passed over
\* and the message is scored by the rules after it, 0 / 'neutral' when it
\* meets none of them, [-8, -3] / 'negative' when it meets the insult rule
C31_GatedRulesFallThrough ==
  [][(variant = "part_002" /\ lastOp'.name = "beforePrompt") =>
       LET unlocked == myInternalState.isNSFWUnlocked
           xpChange == response'.messageState.lastChange
           type == response'.messageState.lastInteractionType
       IN  /\ lastOp'.content \in ExplicitFirst =>
                IF unlocked THEN xpChange = 0 /\ type = "neutral"
                            ELSE xpChange \in (-10)..(-5) /\ type = "negative"
           /\ lastOp'.content \in RomanticFirst =>
                IF unlocked THEN xpChange \in 12..15 /\ type = "positive"
                ELSE IF lastOp'.content = "kiss me" THEN xpChange = 0 /\ type = "neutral"
                ELSE xpChange \in (-8)..(-3) /\ type = "negative"]_vars

\* an explicit text after the unlock, in a chat that was sent one before it
C31_Witness ==
  /\ variant = "part_002"
  /\ lastOp = [name |-> "beforePrompt", content |-> "get naked"]
  /\ myInternalState.isNSFWUnlocked
  /\ response.messageState.lastChange = 0
  /\ \E i \in 1..Len(myInternalState.interactionHistory) :
       /\ myInternalState.interactionHistory[i].message = "get naked"
       /\ myInternalState.interactionHistory[i].scoreChange < 0

(* C32: in Stage.tsx a beforePrompt whose scoreChange is negative changes  *)
(* only currentScore and the history: totalXP, currentLevel, currentState  *)
(* and isNSFWUnlocked are left as they were.  So, from the default state,  *)
(* neither the level nor the tier moves to a lower value under any         *)
(* sequence of beforePrompt calls.                                         *)
TierRank(tier) == CHOOSE i \in 1..Len(TierOrder) : TierOrder[i] = tier

C32_PenaltyTouchesOnlyScore ==
  [][(variant = "Stage" /\ lastOp'.name = "beforePrompt") =>
       /\ response'.messageState.lastChange < 0 =>
            /\ myInternalState'.totalXP = myInternalState.totalXP
            /\ myInternalState'.currentLevel = myInternalState.currentLevel
            /\ myInternalState'.currentState = myInternalState.currentState
            /\ myInternalState'.isNSFWUnlocked = myInternalState.isNSFWUnlocked
       /\ myInternalState'.currentLevel >= myInternalState.currentLevel
       /\ TierRank(myInternalState'.currentState) >= TierRank(myInternalState.currentState)]_vars

\* an insult in the tier 'interested' that lowered the score
C32_Witness ==
  /\ variant = "Stage"
  /\ lastOp = [name |-> "beforePrompt", content |-> "you idiot"]
  /\ response.messageState.lastChange < 0
  /\ response.messageState.previousLevel = 3
  /\ myInternalState.currentLevel = 3
  /\ myInternalState.currentState = "interested"
  /\ myInternalState.currentScore < 50
  /\ myInternalState.totalXP >= 100

(* C33: in Stage.tsx, in every state reachable from the default state by   *)
(* beforePrompt, afterResponse and setState of a messageState the engine   *)
(* returned, isNSFWUnlocked is true if and only if currentLevel >= 5.      *)
C33_UnlockedIffLevelFive ==
  variant = "Stage" =>
    (myInternalState.isNSFWUnlocked <=> myInternalState.currentLevel >= 5)

\* a restore to a level below 5 after the unlock
C33_Witness ==
  /\ variant = "Stage"
  /\ lastOp.name = "setState"
  /\ lastOp.state # null
  /\ \E m \in returned : m.isNSFWUnlocked /\ m.currentLevel = 5
  /\ myInternalState.currentLevel < 5
  /\ ~myInternalState.isNSFWUnlocked

(* C34: in Stage.tsx, in every state reachable from the default state by   *)
(* beforePrompt and afterResponse, totalXP >= 2 * currentScore: the score  *)
(* never exceeds half of the XP gathered.                                  *)
C34_ScoreAtMostHalfXP ==
  variant = "Stage" => myInternalState.totalXP >= 2 * myInternalState.currentScore

\* the bound met with equality after compliments only, at the top of the score
C34_Witness ==
  /\ variant = "Stage"
  /\ lastOp.name = "beforePrompt"
  /\ turns >= 3
  /\ myInternalState.currentScore = 45
  /\ myInternalState.totalXP = 90

(* C35: in every variant the messageState returned by beforePrompt has a   *)
(* category that goes with the sign of the delta: lastInteractionType is   *)
(* 'positive' exactly when lastChange > 0, 'negative' exactly when         *)
(* lastChange < 0 and 'neutral' exactly when lastChange = 0.               *)
C35_CategoryMatchesSign ==
  lastOp.name = "beforePrompt" =>
    LET m == response.messageState
    IN  /\ (m.lastInteractionType = "positive") <=> (m.lastChange > 0)
        /\ (m.lastInteractionType = "negative") <=> (m.lastChange < 0)
        /\ (m.lastInteractionType = "neutral") <=> (m.lastChange = 0)

\* an insult in part_000 once the maximum is unlocked: no penalty, 'neutral'
C35_Witness ==
  /\ variant = "part_000"
  /\ lastOp = [name |-> "beforePrompt", content |-> "you idiot"]
  /\ myInternalState.isMaxAffectionUnlocked
  /\ response.messageState.lastChange = 0
  /\ response.messageState.lastInteractionType = "neutral"

(* C36: in part_000, in every state reachable from the default state by    *)
(* beforePrompt, afterResponse and setState, isMaxAffectionUnlocked        *)
(* implies isInappropriateToleranceUnlocked, and neither flag ever changes *)
(* from true to false: the tolerance flag stays true also after the score  *)
(* has fallen back below 10.                                               *)
C36_FlagsNestedAndKept ==
  /\ [](variant = "part_000" =>
          (myInternalState.isMaxAffectionUnlocked
             => myInternalState.isInappropriateToleranceUnlocked))
  /\ [][variant = "part_000" =>
          /\ myInternalState.isMaxAffectionUnlocked
               => myInternalState'.isMaxAffectionUnlocked
          /\ myInternalState.isInappropriateToleranceUnlocked
               => myInternalState'.isInappropriateToleranceUnlocked]_vars

\* a turn that starts below 10 with the tolerance unlocked
C36_Witness ==
  /\ variant = "part_000"
  /\ lastOp.name = "beforePrompt"
  /\ response.messageState.previousAffection < 10
  /\ myInternalState.currentAffection < 10
  /\ myInternalState.isInappropriateToleranceUnlocked
  /\ ~myInternalState.isMaxAffectionUnlocked

(* C37: in Stage.tsx setState(null) leaves the whole internal state as it  *)
(* is, and afterResponse changes no field of it: it returns a messageState *)
(* with lastChange 0, lastInteractionType 'neutral', previousLevel equal   *)
(* to currentLevel and previousState equal to currentState, and the        *)
(* history unchanged.                                                      *)
C37_NullRestoreAndAfterResponseFrame ==
  [][variant = "Stage" =>
       /\ lastOp' = [name |-> "setState", state |-> null]
            => myInternalState' = myInternalState
       /\ lastOp'.name = "afterResponse"
            => /\ myInternalState' = myInternalState
               /\ response'.messageState.lastChange = 0
               /\ response'.messageState.lastInteractionType = "neutral"
               /\ response'.messageState.previousLevel = myInternalState.currentLevel
               /\ response'.messageState.previousState = myInternalState.currentState
               /\ response'.chatState.interactionHistory
                    = myInternalState.interactionHistory]_vars

\* setState(null) at level 2, after an afterResponse
C37_Witness ==
  /\ variant = "Stage"
  /\ lastOp = [name |-> "setState", state |-> null]
  /\ afters = 1
  /\ myInternalState.currentLevel = 2
  /\ myInternalState.currentScore > 0
  /\ Len(myInternalState.interactionHistory) >= 2
  /\ response.messageState.lastChange = 0
  /\ response.messageState.previousLevel = 2

\* the xpRequired the table of a file gives for a level
xpRequiredOf(file, level) ==
  LET T == ThresholdsOf(file)
  IN  T[CHOOSE i \in DOMAIN T : T[i].level = level].xpRequired

(* C38: in each leveled variant getXPForNextLevel(L) returns the           *)
(* xpRequired of level L + 1 for every level L in 1..22 and the xpRequired *)
(* of level 23 for L >= 23, so that for a state with currentLevel =        *)
(* calculateLevel(totalXP) and L < 23 the progress shown satisfies         *)
(* 0 <= totalXP - xpRequired(L) < getXPForNextLevel(L) - xpRequired(L).    *)
C38_NextLevelThreshold ==
  (call.fn = "getXPForNextLevel" /\ "results" \in DOMAIN call) =>
    LET L == call.currentLevel
        nextLevelXP == call.results.nextLevelXP
        currentLevelXP == call.results.currentLevelXP
    IN  /\ (L <= 22) => nextLevelXP = xpRequiredOf(call.file, L + 1)
        /\ (L >= 23) => nextLevelXP = xpRequiredOf(call.file, 23)
        /\ (L < 23) =>
             \A totalXP \in 0..MaxTotalXP :
               calculateLevelOf(call.file, totalXP) = L =>
                 /\ currentLevelXP = xpRequiredOf(call.file, L)
                 /\ 0 <= totalXP - currentLevelXP
                 /\ totalXP - currentLevelXP < nextLevelXP - currentLevelXP
====
